---- MODULE Spec2Model ----
(***************************************************************************)
(* RAGManager (src/src/utils/rag_manager.py): the in-memory triple         *)
(* (FAISS index, chunk texts, chunk metadata), the three artifact files    *)
(* of the index directory, and the operations that build, grow, persist,   *)
(* reload and search them; the context it assembles for a query; and the   *)
(* chat turn that uses it (src/src/interface.py, src/src/utils/            *)
(* groq_client.py, src/src/utils/safety.py).                               *)
(*                                                                         *)
(* Abstractions.  A passage of text is a number in Texts.  A file's        *)
(* content is the sequence of passages the text splitter cuts it into      *)
(* (<<>> is a file with only whitespace).  An embedding is a vector of     *)
(* integers and a distance is the squared L2 distance IndexFlatL2 returns. *)
(***************************************************************************)
EXTENDS Integers, Sequences, FiniteSets, TLC

\* ------------------------------------------------------------- bounds
NTexts == 2
MaxChunks == 3
MaxWriteFailures == 1
MaxK == 3

Texts == 1..NTexts

\* ------------------------------------------------------- python values
None == [py |-> "None"]
PyList(s) == [list |-> s]

RECURSIVE SeqSum(_)
SeqSum(s) == IF s = <<>> THEN 0 ELSE Head(s) + SeqSum(Tail(s))

RECURSIVE Flatten(_)
Flatten(ss) == IF ss = <<>> THEN <<>> ELSE Head(ss) \o Flatten(Tail(ss))

\* --------------------------------------------------- embedding provider
ModelNames == {"all-MiniLM-L6-v2", "all-mpnet-base-v2"}

\* get_sentence_embedding_dimension of the two models, scaled down
Dimension(name) == IF name = "all-MiniLM-L6-v2" THEN 1 ELSE 2

\* model.encode of one text: one vector of the model's dimension; distinct
\* texts get distinct vectors
EncodeOne(name, t) == [i \in 1..Dimension(name) |-> IF i = 1 THEN t ELSE 0]

\* model.encode(texts): one vector per text, in input order
Encode(name, texts) == [i \in 1..Len(texts) |-> EncodeOne(name, texts[i])]

\* ------------------------------------------------------------ FAISS
IndexFlatL2(d) == [d |-> d, xb |-> <<>>]

\* index.add(x): appends the vectors in order
IndexAdd(index, x) == [index EXCEPT !.xb = index.xb \o x]

Ntotal(index) == Len(index.xb)

\* squared Euclidean distance over the coordinates the two vectors share
L2(u, v) ==
    LET d == IF Len(u) < Len(v) THEN Len(u) ELSE Len(v)
    IN  SeqSum([i \in 1..d |-> (u[i] - v[i]) * (u[i] - v[i])])

\* ------------------------------------------------------- artifact files
Absent == [st |-> "absent"]
Corrupt == [st |-> "corrupt"]

\* faiss.write_index / faiss.read_index
WriteIndex(index) == [st |-> "ok", fmt |-> "faiss", d |-> index.d,
                      ntotal |-> Ntotal(index), codes |-> index.xb]
ReadIndex(file) == [d |-> file.d, xb |-> SubSeq(file.codes, 1, file.ntotal)]

\* pickle.dump / pickle.load
PickleDump(obj) == [st |-> "ok", fmt |-> "pickle", obj |-> obj]
PickleLoad(file) == file.obj

NoWriteFailure == [at |-> 0, partial |-> FALSE]
WriteFailures == {NoWriteFailure} \cup [at : 1..3, partial : BOOLEAN]

\* one file write: a failure before the file is opened leaves the file as it
\* was, a failure after it was opened for writing leaves it truncated
WriteFile(old, new, failure) ==
    IF failure.at = 0 THEN new
    ELSE IF failure.partial THEN Corrupt ELSE old

\* a save that never writes metadata.pkl
SaveIndexWithoutMetadata(s, dsk, wf) ==
    IF wf.at = 1
    THEN [dsk EXCEPT !.index = WriteFile(dsk.index, WriteIndex(s.index), wf)]
    ELSE IF wf.at = 2
    THEN [dsk EXCEPT !.index = WriteIndex(s.index),
                     !.documents = WriteFile(dsk.documents, PickleDump(s.documents), wf)]
    ELSE [dsk EXCEPT !.index = WriteIndex(s.index),
                     !.documents = PickleDump(s.documents)]

\* _save_index: index.faiss, then documents.pkl, then metadata.pkl; the first
\* failing write ends the save, and the error is logged, not raised
SaveIndex(s, dsk, wf) ==
    IF wf.at = 1
    THEN [dsk EXCEPT !.index = WriteFile(dsk.index, WriteIndex(s.index), wf)]
    ELSE IF wf.at = 2
    THEN [dsk EXCEPT !.index = WriteIndex(s.index),
                     !.documents = WriteFile(dsk.documents, PickleDump(s.documents), wf)]
    ELSE IF wf.at = 3
    THEN [dsk EXCEPT !.index = WriteIndex(s.index),
                     !.documents = PickleDump(s.documents),
                     !.metadata = WriteFile(dsk.metadata, PickleDump(s.metadata), wf)]
    ELSE [index |-> WriteIndex(s.index),
          documents |-> PickleDump(s.documents),
          metadata |-> PickleDump(s.metadata)]

\* a load whose handler forgets to reset what was read before the failure
LoadOrInitializeKeepingPartial(s, dsk) ==
    IF dsk.index.st # "absent" /\ dsk.documents.st # "absent" /\ dsk.metadata.st # "absent"
    THEN IF dsk.index.st # "ok" THEN s
         ELSE IF dsk.documents.st # "ok" THEN [s EXCEPT !.index = ReadIndex(dsk.index)]
         ELSE IF dsk.metadata.st # "ok"
         THEN [s EXCEPT !.index = ReadIndex(dsk.index),
                        !.documents = PickleLoad(dsk.documents)]
         ELSE [s EXCEPT !.index = ReadIndex(dsk.index),
                        !.documents = PickleLoad(dsk.documents),
                        !.metadata = PickleLoad(dsk.metadata)]
    ELSE s

\* _load_or_initialize: the triple when the three files exist and
\* deserialize, (None, None, None) otherwise
LoadOrInitialize(s, dsk) ==
    IF dsk.index.st # "absent" /\ dsk.documents.st # "absent" /\ dsk.metadata.st # "absent"
    THEN IF dsk.index.st = "ok" /\ dsk.documents.st = "ok" /\ dsk.metadata.st = "ok"
         THEN [s EXCEPT !.index = ReadIndex(dsk.index),
                        !.documents = PickleLoad(dsk.documents),
                        !.metadata = PickleLoad(dsk.metadata)]
         ELSE [s EXCEPT !.index = None, !.documents = None, !.metadata = None]
    ELSE s

\* __init__: every field None, then _load_or_initialize
NewManager(name, dsk) ==
    LoadOrInitialize([embeddings_model_name |-> name, model |-> None,
                      index |-> None, documents |-> None, metadata |-> None], dsk)

\* ------------------------------------------------------------- corpus
FileNames == <<"a.md", "b.md", "c.txt">>
File(i, content) == [name |-> FileNames[i], content |-> content]

\* what documents_dir may hold: nothing, one blank file, one file of two
\* passages, two files of one passage each around a blank one
Corpora == {<<>>,
            <<File(1, <<>>)>>,
            <<File(1, <<1, 2>>)>>,
            <<File(1, <<2>>), File(2, <<>>), File(3, <<1>>)>>}

\* the texts given to add_document_from_text: blank, one passage, two
Contents == {<<>>, <<1>>, <<2, 1>>}

\* Document(page_content, metadata)
Document(content, md) == [page_content |-> content, metadata |-> md]

\* dict.copy() followed by update(upd)
Update(md, upd) ==
    [key \in DOMAIN md \cup DOMAIN upd |-> IF key \in DOMAIN upd THEN upd[key] ELSE md[key]]

\* dict.get(key, default)
Get(md, key, default) == IF key \in DOMAIN md THEN md[key] ELSE default

\* load_documents: the files with content.strip() non-empty, in glob order,
\* each with its provenance metadata
LoadDocuments(dir) ==
    LET kept == SelectSeq(dir, LAMBDA f : f.content # <<>>)
    IN  [i \in 1..Len(kept) |->
           Document(kept[i].content, [source_file |-> kept[i].name])]

\* len(chunk.page_content)
TextLen(t) == 60 * t

\* text_splitter.split_documents: the chunks of each document in order, each
\* with a copy of its document's metadata
SplitDocuments(docs) ==
    Flatten([i \in 1..Len(docs) |->
               [j \in 1..Len(docs[i].page_content) |->
                  Document(docs[i].page_content[j], docs[i].metadata)]])

\* ---------------------------------------------------------- text splitter
\* RecursiveCharacterTextSplitter(chunk_size, chunk_overlap, length_function=len,
\* separators=["\n\n", "\n", " ", ""]), with the keep_separator and
\* strip_whitespace it has by default.  Here a text is the sequence of its
\* characters.
Separators == << <<"\n", "\n">>, <<"\n">>, <<" ">>, <<>> >>
Whitespace == {" ", "\n"}

\* str.strip()
RECURSIVE LStrip(_)
LStrip(text) ==
    IF text # <<>> /\ Head(text) \in Whitespace THEN LStrip(Tail(text)) ELSE text

Reverse(s) == [i \in 1..Len(s) |-> s[Len(s) + 1 - i]]
Strip(text) == Reverse(LStrip(Reverse(LStrip(text))))

\* re.search(separator, text): the first place the separator occurs, 0 if none
Occurs(text, separator, i) ==
    /\ i + Len(separator) - 1 <= Len(text)
    /\ SubSeq(text, i, i + Len(separator) - 1) = separator

Find(text, separator) ==
    IF \E i \in 1..Len(text) : Occurs(text, separator, i)
    THEN CHOOSE i \in 1..Len(text) :
             Occurs(text, separator, i) /\ \A j \in 1..(i - 1) : ~Occurs(text, separator, j)
    ELSE 0

\* re.split of the text at the separator, each separator kept at the front of
\* the piece that follows it
RECURSIVE SplitKeeping(_, _, _)
SplitKeeping(text, separator, lead) ==
    LET i == Find(text, separator)
    IN  IF i = 0 THEN <<lead \o text>>
        ELSE <<lead \o SubSeq(text, 1, i - 1)>>
             \o SplitKeeping(SubSeq(text, i + Len(separator), Len(text)), separator,
                             separator)

\* _split_text_with_regex: the pieces that are not empty; list(text) for ""
SplitWithRegex(text, separator) ==
    SelectSeq(IF separator # <<>> THEN SplitKeeping(text, separator, <<>>)
              ELSE [i \in 1..Len(text) |-> <<text[i]>>],
              LAMBDA s : s # <<>>)

\* total of _merge_splits: the length of the pieces in current_doc (the
\* separator they are joined with is "")
Total(current_doc) == SeqSum([i \in 1..Len(current_doc) |-> Len(current_doc[i])])

\* _join_docs: the pieces joined and stripped; <<>> stands for its None
JoinDocs(current_doc) == Strip(Flatten(current_doc))

\* a test that lets one character too many in
OverflowsLate(total, len, chunk_size) == total + len > chunk_size + 1

\* the test of _merge_splits for closing the chunk under way
Overflows(total, len, chunk_size) == total + len > chunk_size

\* a loop that carries nothing over into the next chunk
DropsAll(total, len, chunk_size, chunk_overlap) == total > 0

\* the condition of the while loop of _merge_splits
Drops(total, len, chunk_size, chunk_overlap) ==
    total > chunk_overlap \/ (total + len > chunk_size /\ total > 0)

\* the while loop: pieces leave the front of current_doc
RECURSIVE Shed(_, _, _, _)
Shed(current_doc, len, chunk_size, chunk_overlap) ==
    IF Drops(Total(current_doc), len, chunk_size, chunk_overlap)
    THEN Shed(Tail(current_doc), len, chunk_size, chunk_overlap)
    ELSE current_doc

\* what _join_docs adds to docs
Joined(current_doc) ==
    IF JoinDocs(current_doc) # <<>> THEN <<JoinDocs(current_doc)>> ELSE <<>>

\* the loop of _merge_splits from splits[i] on, with current_doc under way:
\* the first piece that closes the chunk under way, 0 when every piece fits
Closing(splits, i, current_doc, chunk_size) ==
    LET Doc(j) == current_doc \o SubSeq(splits, i, j - 1)
        Closes(j) == /\ Overflows(Total(Doc(j)), Len(splits[j]), chunk_size)
                     /\ Doc(j) # <<>>
    IN  IF \E j \in i..Len(splits) : Closes(j)
        THEN CHOOSE j \in i..Len(splits) : Closes(j) /\ \A h \in i..(j - 1) : ~Closes(h)
        ELSE 0

\* _merge_splits from splits[i] on: the chunk under way takes the pieces that
\* fit, is joined into docs, and sheds its front before the next piece
RECURSIVE MergeFrom(_, _, _, _, _)
MergeFrom(splits, i, current_doc, chunk_size, chunk_overlap) ==
    LET j == Closing(splits, i, current_doc, chunk_size)
        Close(doc, d) ==
            Joined(doc)
            \o MergeFrom(splits, j + 1,
                         Append(Shed(doc, Len(d), chunk_size, chunk_overlap), d),
                         chunk_size, chunk_overlap)
    IN  IF j = 0 THEN Joined(current_doc \o SubSeq(splits, i, Len(splits)))
        ELSE Close(current_doc \o SubSeq(splits, i, j - 1), splits[j])

MergeSplits(splits, chunk_size, chunk_overlap) ==
    MergeFrom(splits, 1, <<>>, chunk_size, chunk_overlap)

\* the separator _split_text picks: the first that is "" or occurs in the text
PickSeparator(text, separators) ==
    CHOOSE n \in 1..Len(separators) :
        /\ separators[n] = <<>> \/ Find(text, separators[n]) # 0
        /\ \A j \in 1..(n - 1) : separators[j] # <<>> /\ Find(text, separators[j]) = 0

\* _split_text, and its loop over the pieces from splits[i] on: the pieces
\* shorter than chunk_size gather in _good_splits, which is merged when a
\* longer piece comes and at the end; a longer piece is split further
RECURSIVE SplitText(_, _, _, _)
RECURSIVE SplitLoop(_, _, _, _, _)
SplitLoop(splits, i, new_separators, chunk_size, chunk_overlap) ==
    LET Long(j) == Len(splits[j]) >= chunk_size
        j == IF \E h \in i..Len(splits) : Long(h)
             THEN CHOOSE h \in i..Len(splits) : Long(h) /\ \A g \in i..(h - 1) : ~Long(g)
             ELSE 0
    IN  IF j = 0
        THEN MergeSplits(SubSeq(splits, i, Len(splits)), chunk_size, chunk_overlap)
        ELSE MergeSplits(SubSeq(splits, i, j - 1), chunk_size, chunk_overlap)
             \o (IF new_separators = <<>> THEN <<splits[j]>>
                 ELSE SplitText(splits[j], new_separators, chunk_size, chunk_overlap))
             \o SplitLoop(splits, j + 1, new_separators, chunk_size, chunk_overlap)

SplitText(text, separators, chunk_size, chunk_overlap) ==
    LET n == PickSeparator(text, separators)
        new_separators == IF separators[n] = <<>> THEN <<>>
                          ELSE SubSeq(separators, n + 1, Len(separators))
    IN  SplitLoop(SplitWithRegex(text, separators[n]), 1, new_separators,
                  chunk_size, chunk_overlap)

\* a Python int
PyInt(v) == [py |-> "int", v |-> v]

\* RAG_CONFIG["chunk_size"] and RAG_CONFIG["chunk_overlap"] when the
\* environment sets neither
DefaultChunkSize == 1000
DefaultChunkOverlap == 200

\* x or default
Or(x, default) == IF x = None THEN default ELSE IF x.v = 0 THEN default ELSE x.v

\* TextSplitter.__init__: chunk_overlap > chunk_size raises ValueError, and
\* the comparison itself raises TypeError when an operand is None
TextSplitterInit(chunk_size, chunk_overlap) ==
    IF chunk_size = None \/ chunk_overlap = None
    THEN [raised |-> "TypeError", text_splitter |-> None]
    ELSE IF chunk_overlap.v > chunk_size.v
    THEN [raised |-> "ValueError", text_splitter |-> None]
    ELSE [raised |-> "none",
          text_splitter |-> [chunk_size |-> chunk_size.v, chunk_overlap |-> chunk_overlap.v]]

\* a constructor that hands the splitter the sizes it stored
RAGManagerChunkingStored(chunk_size, chunk_overlap) ==
    LET made == TextSplitterInit(PyInt(Or(chunk_size, DefaultChunkSize)),
                                 PyInt(Or(chunk_overlap, DefaultChunkOverlap)))
    IN  [raised |-> made.raised,
         chunk_size |-> Or(chunk_size, DefaultChunkSize),
         chunk_overlap |-> Or(chunk_overlap, DefaultChunkOverlap),
         text_splitter |-> made.text_splitter]

\* RAGManager.__init__, lines 47-48 and 69-74: the sizes it stores and the
\* text splitter it makes
RAGManagerChunking(chunk_size, chunk_overlap) ==
    LET made == TextSplitterInit(chunk_size, chunk_overlap)
    IN  [raised |-> made.raised,
         chunk_size |-> Or(chunk_size, DefaultChunkSize),
         chunk_overlap |-> Or(chunk_overlap, DefaultChunkOverlap),
         text_splitter |-> made.text_splitter]

\* get_stats(): the chunking entries
GetStats(s) == [chunk_size |-> s.chunk_size, chunk_overlap |-> s.chunk_overlap]

\* text_splitter.split_documents([doc]) on the characters of a document: its
\* chunks in order, each with a copy of the document's metadata
SplitDocument(doc, chunk_size, chunk_overlap) ==
    LET chunks == SplitText(doc.page_content, Separators, chunk_size, chunk_overlap)
    IN  [j \in 1..Len(chunks) |-> Document(chunks[j], doc.metadata)]

\* ------------------------------------------------------------ handlers
\* the outcome of a mutation: the manager, the disk, the value returned, what
\* became of the save ("none": not reached), the number of chunks made and
\* the exception its handler caught and logged
Outcome(s, dsk, ret, save, n) ==
    [self |-> s, disk |-> dsk, ret |-> ret, save |-> save, chunks |-> n, error |-> "none"]

\* the same outcome, reached through `except Exception as e`
Caught(out, e) == [out EXCEPT !.error = e]

SaveState(wf) == IF wf.at = 0 THEN "ok" ELSE "failed"

\* _load_embeddings_model: loads the model when self.model is None
LoadEmbeddingsModel(s) ==
    IF s.model = None THEN [s EXCEPT !.model = [name |-> s.embeddings_model_name]] ELSE s

\* chunk metadata of index_documents: chunk_id is the position in the batch
IndexMetadata(chunks) ==
    [i \in 1..Len(chunks) |->
       Update(chunks[i].metadata,
              [chunk_id |-> i - 1, chunk_size |-> TextLen(chunks[i].page_content)])]

PageContents(chunks) == [i \in 1..Len(chunks) |-> chunks[i].page_content]

\* a rebuild that adds to the index and lists held before
RebuiltKeeping(s, chunks) ==
    LET texts == PageContents(chunks)
        embeddings == Encode(s.model.name, texts)
    IN  IF s.index = None \/ s.index.d # Dimension(s.model.name)
        THEN [s EXCEPT !.index = IndexAdd(IndexFlatL2(Dimension(s.model.name)), embeddings),
                       !.documents = PyList(texts),
                       !.metadata = PyList(IndexMetadata(chunks))]
        ELSE [s EXCEPT !.index = IndexAdd(s.index, embeddings),
                       !.documents = PyList(s.documents.list \o texts),
                       !.metadata = PyList(s.metadata.list \o IndexMetadata(chunks))]

\* index_documents, lines 196-209: a new index over the chunks' embeddings, and
\* the chunk texts and metadata in place of the lists held before
Rebuilt(s, chunks) ==
    LET texts == PageContents(chunks)
        embeddings == Encode(s.model.name, texts)
    IN  [s EXCEPT !.index = IndexAdd(IndexFlatL2(Dimension(s.model.name)), embeddings),
                  !.documents = PyList(texts),
                  !.metadata = PyList(IndexMetadata(chunks))]

\* an empty rebuild taken as a change to an index without chunks
NothingToIndexEmptied(s, dsk) ==
    LET emptied == [s EXCEPT !.index = IndexFlatL2(Dimension(s.model.name)),
                             !.documents = PyList(<<>>),
                             !.metadata = PyList(<<>>)]
    IN  Outcome(emptied, SaveIndex(emptied, dsk, NoWriteFailure), FALSE, "ok", 0)

\* index_documents, lines 175-177: no document loaded
NothingToIndex(s, dsk) == Outcome(s, dsk, FALSE, "none", 0)

\* index_documents; loadOk: SentenceTransformer(name) does not raise
IndexDocuments(s, dir, dsk, loadOk, wf) ==
    IF s.model = None /\ ~loadOk THEN Caught(Outcome(s, dsk, FALSE, "none", 0), "model_load")
    ELSE
    LET s1 == LoadEmbeddingsModel(s)
        documents == LoadDocuments(dir)
        chunks == SplitDocuments(documents)
        built == Rebuilt(s1, chunks)
    IN  IF documents = <<>> THEN NothingToIndex(s1, dsk)
        ELSE IF chunks = <<>> THEN Outcome(s1, dsk, FALSE, "none", 0)
        ELSE Outcome(built, SaveIndex(built, dsk, wf), TRUE, SaveState(wf), Len(chunks))

\* chunk metadata of add_document_from_text: chunk_id is the position in
\* self.documents after the append
AddMetadata(chunks, before) ==
    [i \in 1..Len(chunks) |->
       Update(chunks[i].metadata,
              [chunk_id |-> before + i - 1, chunk_size |-> TextLen(chunks[i].page_content)])]

\* new chunks put in front of the lists
AppendChunksInFront(s, chunks) ==
    [s EXCEPT !.documents = PyList(PageContents(chunks) \o s.documents.list),
              !.metadata = PyList(AddMetadata(chunks, Len(s.documents.list))
                                  \o s.metadata.list)]

\* the texts and metadata of add_document_from_text appended to the lists
AppendChunks(s, chunks) ==
    [s EXCEPT !.documents = PyList(s.documents.list \o PageContents(chunks)),
              !.metadata = PyList(s.metadata.list
                                  \o AddMetadata(chunks, Len(s.documents.list)))]

\* an index that takes vectors of any dimension
NoDimensionCheck(index, dimension) == FALSE

\* index.add(x) refuses vectors whose dimension is not the index's
\* (AssertionError)
DimensionMismatch(index, dimension) == index.d # dimension

\* add_document_from_text
AddDocumentFromText(s, text, metadata, dsk, loadOk, wf) ==
    LET doc == Document(text, IF metadata = None THEN <<>> ELSE metadata)
        chunks == SplitDocuments(<<doc>>)
        s1 == LoadEmbeddingsModel(s)
        new_embeddings == Encode(s1.model.name, PageContents(chunks))
        dimension == Dimension(s1.model.name)
        s2 == IF s1.index = None
              THEN [s1 EXCEPT !.index = IndexFlatL2(dimension),
                              !.documents = PyList(<<>>),
                              !.metadata = PyList(<<>>)]
              ELSE s1
        s3 == AppendChunks([s2 EXCEPT !.index = IndexAdd(s2.index, new_embeddings)], chunks)
    IN  IF chunks = <<>> THEN Outcome(s, dsk, FALSE, "none", 0)
        ELSE IF s.model = None /\ ~loadOk
        THEN Caught(Outcome(s, dsk, FALSE, "none", Len(chunks)), "model_load")
        ELSE IF DimensionMismatch(s2.index, dimension)
        THEN Caught(Outcome(s2, dsk, FALSE, "none", Len(chunks)), "AssertionError")
        ELSE Outcome(s3, SaveIndex(s3, dsk, wf), TRUE, SaveState(wf), Len(chunks))

\* ------------------------------------------- a mutation, statement by statement
\* add_document_from_text, lines 366-391: the chunks, the model, and the index
\* and lists made when there is no index; what is left is index.add, the loop
\* of appends and the save
AddPrepared(s, text, metadata, loadOk) ==
    LET chunks == SplitDocuments(<<Document(text, metadata)>>)
        s1 == LoadEmbeddingsModel(s)
        dimension == Dimension(s1.model.name)
        s2 == IF s1.index = None
              THEN [s1 EXCEPT !.index = IndexFlatL2(dimension),
                              !.documents = PyList(<<>>),
                              !.metadata = PyList(<<>>)]
              ELSE s1
    IN  IF chunks = <<>> THEN [self |-> s, chunks |-> chunks, error |-> "no_chunks"]
        ELSE IF s.model = None /\ ~loadOk
        THEN [self |-> s, chunks |-> chunks, error |-> "model_load"]
        ELSE IF DimensionMismatch(s2.index, dimension)
        THEN [self |-> s2, chunks |-> chunks, error |-> "AssertionError"]
        ELSE [self |-> s2, chunks |-> chunks, error |-> "none"]

\* index_documents, lines 170-199: the model, the documents, their chunks
IndexPrepared(s, dir, loadOk) ==
    LET s1 == LoadEmbeddingsModel(s)
        documents == LoadDocuments(dir)
        chunks == SplitDocuments(documents)
    IN  IF s.model = None /\ ~loadOk
        THEN [self |-> s, chunks |-> <<>>, error |-> "model_load"]
        ELSE IF documents = <<>> \/ chunks = <<>>
        THEN [self |-> s1, chunks |-> <<>>, error |-> "no_documents"]
        ELSE [self |-> s1, chunks |-> chunks, error |-> "none"]

\* an append that puts the text and its metadata in the lists at once
AppendTextAndMetadata(s, chunk) ==
    [s EXCEPT !.documents = PyList(@.list \o <<chunk.page_content>>),
              !.metadata = PyList(@.list \o AddMetadata(<<chunk>>, Len(s.documents.list)))]

\* line 398: self.documents.append(chunk.page_content)
AppendText(s, chunk) ==
    [s EXCEPT !.documents = PyList(@.list \o <<chunk.page_content>>)]

\* lines 399-404: the chunk's metadata, its chunk_id the position of the text
\* just appended
AppendMetadata(s, chunk) ==
    [s EXCEPT !.metadata = PyList(@.list \o AddMetadata(<<chunk>>, Len(s.documents.list) - 1))]

\* the statement at `line` of the mutation m under way, done on s: the
\* manager afterwards
Statement(s, m) ==
    LET embeddings == Encode(s.model.name, PageContents(m.todo))
    IN  CASE m.line = 394 -> [s EXCEPT !.index = IndexAdd(@, embeddings)]
          [] m.line = 398 -> AppendText(s, Head(m.todo))
          [] m.line = 399 -> AppendMetadata(s, Head(m.todo))
          [] m.line = 204 -> [s EXCEPT !.index = IndexFlatL2(Dimension(s.model.name))]
          [] m.line = 205 -> [s EXCEPT !.index = IndexAdd(@, embeddings)]
          [] m.line = 208 -> [s EXCEPT !.documents = PyList(PageContents(m.todo))]
          [] m.line = 209 -> [s EXCEPT !.metadata = PyList(IndexMetadata(m.todo))]
          [] OTHER -> s

\* the mutation under way after that statement: the line it stands at next
\* (407 and 212 call _save_index) and the chunks it has left
Advance(m) ==
    CASE m.line = 394 -> [m EXCEPT !.line = 398]
      [] m.line = 398 -> [m EXCEPT !.line = 399]
      [] m.line = 399 -> [m EXCEPT !.line = IF Len(m.todo) > 1 THEN 398 ELSE 407,
                                   !.todo = Tail(@)]
      [] m.line = 204 -> [m EXCEPT !.line = 205]
      [] m.line = 205 -> [m EXCEPT !.line = 208]
      [] m.line = 208 -> [m EXCEPT !.line = 209]
      [] m.line = 209 -> [m EXCEPT !.line = 212]
      [] OTHER -> m

\* ------------------------------------------------------------- search
\* the distance FAISS reports for a missing neighbour (FLT_MAX), with label -1
FltMax == 1000
Infinity == FltMax + 1

\* a category of None or "": both are false in `if category`
NoCategory == ""
CategoryCode(category) == IF category = "Anxiety" THEN 1 ELSE 2

\* f"{category}: {query}": a text that differs from every unprefixed text
Prefixed(category, query) == CategoryCode(category) * (NTexts + 1) + query

\* a prefix put before the query whenever a category is given, the default
\* one included
EnhancedQueryAnyCategory(query, category) ==
    IF category # NoCategory THEN Prefixed(category, query) ELSE query

\* enhanced_query of search_relevant_content
EnhancedQuery(query, category) ==
    IF category # NoCategory /\ category # "General" THEN Prefixed(category, query) ELSE query

Less(a, b) == a[1] < b[1] \/ (a[1] = b[1] /\ a[2] < b[2])

\* an order that puts the farthest first
RECURSIVE Descending(_)
Descending(pairs) ==
    IF pairs = {} THEN <<>>
    ELSE LET most == CHOOSE a \in pairs : \A b \in pairs \ {a} : Less(b, a)
         IN  <<most>> \o Descending(pairs \ {most})

RECURSIVE Ascending(_)
Ascending(pairs) ==
    IF pairs = {} THEN <<>>
    ELSE LET least == CHOOSE a \in pairs : \A b \in pairs \ {a} : Less(a, b)
         IN  <<least>> \o Ascending(pairs \ {least})

\* index.search(x, k): the k nearest <<distance, label>> by ascending distance,
\* padded with <<FLT_MAX, -1>> when the index holds fewer than k vectors
IndexSearch(index, x, k) ==
    LET found == Ascending({<<L2(index.xb[i], x), i - 1>> : i \in 1..Ntotal(index)})
    IN  [j \in 1..k |-> IF j <= Len(found) THEN found[j] ELSE <<FltMax, -1>>]

\* list[idx] of Python: a negative idx counts from the end
InRange(list, idx) == idx < Len(list) /\ idx >= 0 - Len(list)
Item(list, idx) == IF idx < 0 THEN list[Len(list) + idx + 1] ELSE list[idx + 1]

\* a filter that keeps a distance equal to the threshold
FormatResultsInclusive(s, hits, relevance_threshold) ==
    LET kept == SelectSeq(hits, LAMBDA h : h[2] < Len(s.documents.list)
                                           /\ h[1] <= relevance_threshold)
    IN  [j \in 1..Len(kept) |->
           [content |-> Item(s.documents.list, kept[j][2]),
            metadata |-> Item(s.metadata.list, kept[j][2]),
            relevance_score |-> kept[j][1],
            source |-> Get(Item(s.metadata.list, kept[j][2]), "source_file", "unknown")]]

\* the loop of search_relevant_content over zip(distances[0], indices[0])
FormatResults(s, hits, relevance_threshold) ==
    LET kept == SelectSeq(hits, LAMBDA h : h[2] < Len(s.documents.list)
                                           /\ h[1] < relevance_threshold)
    IN  [j \in 1..Len(kept) |->
           [content |-> Item(s.documents.list, kept[j][2]),
            metadata |-> Item(s.metadata.list, kept[j][2]),
            relevance_score |-> kept[j][1],
            source |-> Get(Item(s.metadata.list, kept[j][2]), "source_file", "unknown")]]

\* the subscripts of the loop that raise: IndexError out of range, TypeError
\* on self.metadata when it is None
Raises(s, hits, relevance_threshold) ==
    \E j \in 1..Len(hits) :
        /\ hits[j][2] < Len(s.documents.list)
        /\ hits[j][1] < relevance_threshold
        /\ \/ ~InRange(s.documents.list, hits[j][2])
           \/ s.metadata = None
           \/ ~InRange(s.metadata.list, hits[j][2])

\* the exception of the first such subscript
Raised(s, hits, relevance_threshold) ==
    LET j == CHOOSE j \in 1..Len(hits) :
                 /\ Raises(s, SubSeq(hits, 1, j), relevance_threshold)
                 /\ ~Raises(s, SubSeq(hits, 1, j - 1), relevance_threshold)
    IN  IF InRange(s.documents.list, hits[j][2]) /\ s.metadata = None
        THEN "TypeError" ELSE "IndexError"

\* what search_relevant_content leaves: the manager, the list returned and
\* the exception its handler caught and logged
NoText == 0
Found(s, result) == [self |-> s, result |-> result, error |-> "none", embedded |-> NoText]

\* the text handed to model.encode, line 274
Embedding(out, enhanced_query) == [out EXCEPT !.embedded = enhanced_query]

\* search_relevant_content
SearchRelevantContent(s, query, k, category, relevance_threshold, loadOk) ==
    IF s.index = None \/ s.documents = None \/ s.documents = PyList(<<>>)
    THEN Found(s, <<>>)
    ELSE IF s.model = None /\ ~loadOk THEN Caught(Found(s, <<>>), "model_load")
    ELSE
    LET s1 == LoadEmbeddingsModel(s)
        enhanced_query == EnhancedQuery(query, category)
        query_embedding == EncodeOne(s1.model.name, enhanced_query)
        hits == IndexSearch(s1.index, query_embedding, k)
    IN  Embedding(IF k <= 0 \/ Len(query_embedding) # s1.index.d
                  THEN Caught(Found(s1, <<>>), "AssertionError")
                  ELSE IF Raises(s1, hits, relevance_threshold)
                  THEN Caught(Found(s1, <<>>), Raised(s1, hits, relevance_threshold))
                  ELSE Found(s1, FormatResults(s1, hits, relevance_threshold)),
                  enhanced_query)

\* ------------------------------------------------------ context assembly
\* k and relevance_threshold of the search get_context_for_query makes; the
\* threshold 1.2 on the scale of L2: adjacent passages lie within it, a
\* passage two steps away does not
ContextK == 3
ContextThreshold == 2

\* the floor under which the remaining space is not used, and the lengths of
\* "...", of "\n\n---\n\n" and of
\* "Relevant information from the knowledge base:\n\n"
TruncationFloor == 100
MarkerLen == 3
DelimiterLen == 7
HeaderLen == 47

\* a string made of chunk texts: whether it starts with the header, and its
\* parts joined by the delimiter, each the first `chars` characters of a chunk
\* text, followed by "..." when `marker`
EmptyString == [header |-> FALSE, parts |-> <<>>]
Whole(content) == [text |-> content, chars |-> TextLen(content), marker |-> FALSE]
Truncated(content, n) == [text |-> content, chars |-> n, marker |-> TRUE]

\* len() of such a string
PartLen(part) == part.chars + (IF part.marker THEN MarkerLen ELSE 0)
StrLen(str) ==
    (IF str.header THEN HeaderLen ELSE 0)
    + SeqSum([i \in 1..Len(str.parts) |-> PartLen(str.parts[i])])
    + (IF Len(str.parts) > 1 THEN DelimiterLen * (Len(str.parts) - 1) ELSE 0)

\* a loop that passes over the result that does not fit and goes on
RECURSIVE ContextPartsSkipping(_, _, _, _)
ContextPartsSkipping(docs, i, current_length, max_context_length) ==
    IF i > Len(docs) THEN <<>>
    ELSE LET content == docs[i].content
             remaining_space == max_context_length - current_length
         IN  IF current_length + TextLen(content) > max_context_length
             THEN (IF remaining_space > TruncationFloor
                   THEN <<Truncated(content, remaining_space)>> ELSE <<>>)
                  \o ContextPartsSkipping(docs, i + 1, current_length, max_context_length)
             ELSE <<Whole(content)>>
                  \o ContextPartsSkipping(docs, i + 1, current_length + TextLen(content),
                                          max_context_length)

\* the loop of get_context_for_query from relevant_docs[i] on, lines 329-342
RECURSIVE ContextParts(_, _, _, _)
ContextParts(docs, i, current_length, max_context_length) ==
    IF i > Len(docs) THEN <<>>
    ELSE LET content == docs[i].content
             remaining_space == max_context_length - current_length
         IN  IF current_length + TextLen(content) > max_context_length
             THEN IF remaining_space > TruncationFloor
                  THEN <<Truncated(content, remaining_space)>> ELSE <<>>
             ELSE <<Whole(content)>>
                  \o ContextParts(docs, i + 1, current_length + TextLen(content),
                                  max_context_length)

\* a context that is the header alone when nothing was retrieved
NoDocsPlaceholder(s, e) == [self |-> s, relevant_docs |-> <<>>, error |-> e,
                            context |-> [header |-> TRUE, parts |-> <<>>]]

\* get_context_for_query, lines 321-323: nothing retrieved
NoDocs(s, e) == [self |-> s, relevant_docs |-> <<>>, error |-> e, context |-> EmptyString]

\* get_context_for_query: the manager afterwards, what the search returned and
\* the string returned
GetContextForQuery(s, query, category, max_context_length, loadOk) ==
    LET Assemble(out) ==
            LET relevant_docs == out.result
                context_parts == ContextParts(relevant_docs, 1, 0, max_context_length)
            IN  IF relevant_docs = <<>> THEN NoDocs(out.self, out.error)
                ELSE [self |-> out.self, relevant_docs |-> relevant_docs,
                      error |-> out.error,
                      context |-> IF context_parts # <<>>
                                  THEN [header |-> TRUE, parts |-> context_parts]
                                  ELSE EmptyString]
    IN  Assemble(SearchRelevantContent(s, query, ContextK, category, ContextThreshold,
                                       loadOk))

\* ---------------------------------------------------------- crisis gate
\* two of the CRISIS_KEYWORDS of settings.py, and the words get_crisis_response
\* looks for
CRISIS_KEYWORDS == {"suicide", "hopeless"}
SuicideRiskWords == {"suicidio", "matarme", "quitarme la vida", "no quiero vivir"}

\* detect_crisis: the keywords that occur in the lowercased message
DetectCrisis(message) ==
    LET keywords_found == message.words \cap CRISIS_KEYWORDS
    IN  [crisis_detected |-> keywords_found # {}, keywords |-> keywords_found]

\* ------------------------------------------------ detect_crisis on characters
\* a message and a keyword as the sequences of their characters
LowercaseLetters == <<"a", "b", "c", "d", "e", "f", "g", "h", "i", "j", "k", "l", "m", "n", "o", "p", "q", "r", "s", "t", "u", "v", "w", "x", "y", "z">>
UppercaseLetters == <<"A", "B", "C", "D", "E", "F", "G", "H", "I", "J", "K", "L", "M", "N", "O", "P", "Q", "R", "S", "T", "U", "V", "W", "X", "Y", "Z">>

\* str.lower() and str.upper(), character by character
LowerChar(c) ==
    IF \E i \in 1..26 : UppercaseLetters[i] = c
    THEN LowercaseLetters[CHOOSE i \in 1..26 : UppercaseLetters[i] = c] ELSE c
UpperChar(c) ==
    IF \E i \in 1..26 : LowercaseLetters[i] = c
    THEN UppercaseLetters[CHOOSE i \in 1..26 : LowercaseLetters[i] = c] ELSE c
Lower(text) == [i \in 1..Len(text) |-> LowerChar(text[i])]
Upper(text) == [i \in 1..Len(text) |-> UpperChar(text[i])]

\* CRISIS_KEYWORDS of settings.py, in the order and the letter case of the list
CrisisKeywordList == <<
    <<"s", "u", "i", "c", "i", "d", "e">>,
    <<"k", "i", "l", "l", " ", "m", "y", "s", "e", "l", "f">>,
    <<"e", "n", "d", " ", "m", "y", " ", "l", "i", "f", "e">>,
    <<"d", "o", "n", "'", "t", " ", "w", "a", "n", "t", " ", "t", "o", " ", "l", "i", "v", "e">>,
    <<"s", "e", "l", "f", "-", "h", "a", "r", "m">>,
    <<"c", "u", "t", " ", "m", "y", "s", "e", "l", "f">>,
    <<"h", "u", "r", "t", " ", "m", "y", "s", "e", "l", "f">>,
    <<"d", "i", "e">>,
    <<"e", "n", "d", " ", "e", "v", "e", "r", "y", "t", "h", "i", "n", "g">>,
    <<"e", "n", "d", " ", "i", "t", " ", "a", "l", "l">>,
    <<"n", "o", " ", "p", "o", "i", "n", "t", " ", "l", "i", "v", "i", "n", "g">>,
    <<"n", "o", "b", "o", "d", "y", " ", "w", "o", "u", "l", "d", " ", "m", "i", "s", "s", " ", "m", "e">>,
    <<"b", "e", "t", "t", "e", "r", " ", "w", "i", "t", "h", "o", "u", "t", " ", "m", "e">>,
    <<"I", " ", "c", "a", "n", "'", "t", " ", "t", "a", "k", "e", " ", "i", "t", " ", "a", "n", "y", "m", "o", "r", "e">>,
    <<"c", "a", "n", "'", "t", " ", "g", "o", " ", "o", "n">>,
    <<"w", "a", "n", "t", " ", "t", "o", " ", "d", "i", "e">>,
    <<"b", "u", "r", "d", "e", "n">>,
    <<"n", "o", " ", "w", "a", "y", " ", "o", "u", "t">>,
    <<"h", "a", "r", "m", " ", "m", "y", "s", "e", "l", "f">>,
    <<"h", "u", "r", "t", " ", "m", "y", "s", "e", "l", "f">>,
    <<"h", "o", "p", "e", "l", "e", "s", "s">>,
    <<"g", "o", "o", "d", "b", "y", "e", " ", "f", "o", "r", "e", "v", "e", "r">>,
    <<"c", "a", "n", "'", "t", " ", "r", "e", "s", "i", "s", "t", " ", "a", "n", "y", "m", "o", "r", "e">>>>

\* word in text
In(word, text) == \E i \in 1..Len(text) : Occurs(text, word, i)

\* word in message_lower
FoundIn(word, message_lower) == In(word, message_lower)

\* detect_crisis(message): the keywords found in the lowercased message, in
\* the order of the list
DetectCrisisChars(message) ==
    LET message_lower == Lower(message)
        keywords_found == SelectSeq(CrisisKeywordList,
                                    LAMBDA word : FoundIn(word, message_lower))
    IN  [crisis_detected |-> keywords_found # <<>>, keywords |-> keywords_found]

\* get_crisis_response
GetCrisisResponse(keywords) ==
    [kind |-> "crisis", is_suicide_risk |-> keywords \cap SuicideRiskWords # {}]

\* ------------------------------------------------------------ LLM client
DefaultModel == "all-MiniLM-L6-v2"
SystemMessageKeys == {"General", "Anxiety"}

\* SYSTEM_MESSAGES.get(category, SYSTEM_MESSAGES["General"])
SystemMessage(category) == IF category \in SystemMessageKeys THEN category ELSE "General"

\* a constructor that does not look at FAISS_AVAILABLE
RAGManagerInitUnchecked(faiss_available, name, dsk) ==
    [raised |-> "none", manager |-> NewManager(name, dsk)]

\* RAGManager(...) in a process where faiss or sentence_transformers may be
\* missing: lines 59-60 raise ImportError before anything is loaded
RAGManagerInit(faiss_available, name, dsk) ==
    IF ~faiss_available THEN [raised |-> "ImportError", manager |-> None]
    ELSE [raised |-> "none", manager |-> NewManager(name, dsk)]

\* initialize_rag_manager: the manager, or None when its construction raised
InitializeRagManager(faiss_available, name, dsk) ==
    RAGManagerInit(faiss_available, name, dsk).manager

\* GroqClient.__init__ and _initialize_rag
GroqClientInit(api_key, faiss_available, enable_rag, dsk) ==
    LET rag_manager == IF enable_rag
                       THEN InitializeRagManager(faiss_available, DefaultModel, dsk)
                       ELSE None
    IN  IF ~api_key
        THEN [raised |-> "ValueError", enable_rag |-> enable_rag, rag_manager |-> None]
        ELSE [raised |-> "none", enable_rag |-> enable_rag /\ rag_manager # None,
              rag_manager |-> rag_manager]

\* retry_attempts of chat_completion, the messages of history passed on, and
\* the max_context_length generate_mental_health_response asks for
RetryAttempts == 3
HistoryLimit == 20
ChatContextLength == 1500

ConnectionProblems == [kind |-> "connection_problems"]
HavingProblems == [kind |-> "having_problems"]
ErrorMessage == [kind |-> "error_message"]

\* chat_completion: api.fails requests fail before one succeeds with api.body;
\* after retry_attempts failures the fallback is returned
ChatCompletion(messages, api) ==
    IF api.fails >= RetryAttempts
    THEN [posts |-> RetryAttempts, messages |-> messages,
          response |-> [error |-> TRUE, choices |-> <<ConnectionProblems>>]]
    ELSE [posts |-> api.fails + 1, messages |-> messages, response |-> api.body]

\* the loop of chat_completion, request by request. outcomes[i] is what the
\* i-th requests.post meets: "ok", or the RequestException it raises
RECURSIVE Pow2(_)
Pow2(n) == IF n = 0 THEN 1 ELSE 2 * Pow2(n - 1)

\* retry_delay * (2 ** (attempts - 1))
WaitTime(retry_delay, attempts) == retry_delay * Pow2(attempts - 1)

\* a break that comes one failure late
ExhaustedLate(attempts, retry_attempts) == attempts > retry_attempts

\* if attempts >= retry_attempts: break
Exhausted(attempts, retry_attempts) == attempts >= retry_attempts

\* the return after the loop: str(last_error) and the apology
FallbackResponse(last_error) == [error |-> last_error, choices |-> <<ConnectionProblems>>]

\* the loop from its test on: `attempts` failures counted, `posts` requests
\* sent and `sleeps` the waits so far
RECURSIVE RetryLoop(_, _, _, _, _, _, _, _)
RetryLoop(outcomes, body, retry_attempts, retry_delay, attempts, last_error, posts, sleeps) ==
    IF ~(attempts < retry_attempts)
    THEN [posts |-> posts, sleeps |-> sleeps, response |-> FallbackResponse(last_error)]
    ELSE IF outcomes[posts + 1] = "ok"
    THEN [posts |-> posts + 1, sleeps |-> sleeps, response |-> body]
    ELSE IF Exhausted(attempts + 1, retry_attempts)
    THEN [posts |-> posts + 1, sleeps |-> sleeps,
          response |-> FallbackResponse(outcomes[posts + 1])]
    ELSE RetryLoop(outcomes, body, retry_attempts, retry_delay, attempts + 1,
                   outcomes[posts + 1], posts + 1,
                   Append(sleeps, WaitTime(retry_delay, attempts + 1)))

\* chat_completion(messages, retry_attempts=..., retry_delay=...): attempts = 0
\* and last_error = None before the loop
ChatCompletionRetrying(outcomes, body, retry_attempts, retry_delay) ==
    RetryLoop(outcomes, body, retry_attempts, retry_delay, 0, "None", 0, <<>>)

\* seq[-n:]
\* a limit that keeps the oldest entries
FirstN(seq, n) == IF Len(seq) <= n THEN seq ELSE SubSeq(seq, 1, n)

\* conversation_history[-20:]
LastN(seq, n) == IF Len(seq) <= n THEN seq ELSE SubSeq(seq, Len(seq) - n + 1, Len(seq))

\* a system message that carries the knowledge-base instructions in any case
EnhancedAlways(system_message, rag_context) ==
    [base |-> system_message, rag |-> TRUE, rag_context |-> rag_context]

\* enhanced_system_message, lines 216-218
Enhanced(system_message, rag_context) ==
    [base |-> system_message, rag |-> rag_context # EmptyString, rag_context |-> rag_context]

\* generate_mental_health_response; contextRaises: get_context_for_query
\* raises; a body whose first choice has no message content raises KeyError
GenerateMentalHealthResponse(client, user_message, category, use_rag, conversation_history, api, loadOk, contextRaises) ==
    LET system_message == SystemMessage(category)
        asks == client.enable_rag /\ use_rag /\ client.rag_manager # None
        \* lines 221-251, given what chat_completion returned
        Reply(got, rag_context, sent) ==
            LET choices == IF "choices" \in DOMAIN sent.response
                           THEN sent.response.choices ELSE <<>>
                content == choices[1]
                noted == rag_context # EmptyString /\ content.kind = "llm" /\ content.keyword
            IN  [rag_manager |-> IF asks THEN got.self ELSE client.rag_manager,
                 retrieval |-> asks,
                 posts |-> sent.posts,
                 messages |-> sent.messages,
                 system |-> sent.messages[1].content,
                 rag_context |-> rag_context,
                 raised |-> IF choices # <<>> /\ content.kind = "malformed"
                            THEN "KeyError" ELSE "none",
                 response |-> IF choices = <<>> THEN HavingProblems
                              ELSE IF content.kind = "llm"
                              THEN [content EXCEPT !.note = noted]
                              ELSE content]
        \* lines 216-232, given the context
        Send(got, rag_context) ==
            Reply(got, rag_context,
                  ChatCompletion(
                      <<[role |-> "system",
                         content |-> Enhanced(system_message, rag_context)]>>
                      \o LastN(conversation_history, HistoryLimit)
                      \o <<[role |-> "user", content |-> user_message]>>,
                      api))
        \* lines 197-213, given what get_context_for_query did
        Retrieve(got) ==
            Send(got, IF asks /\ ~contextRaises THEN got.context ELSE EmptyString)
    IN  Retrieve(GetContextForQuery(client.rag_manager, user_message.query, category,
                                    ChatContextLength, loadOk))

\* what a call of process_message did: what became of GroqClient() and of the
\* RAGManager construction in it, whether it asked for context, the requests
\* it posted, the system message of the request, the context in it, the reply
\* it put in the chat and whether it loaded the embedding model
NoTurn == [client |-> "none", manager |-> "none", retrieval |-> FALSE, posts |-> 0,
           category |-> NoCategory, system |-> None, rag_context |-> EmptyString,
           reply |-> None, loaded |-> FALSE]

\* what generate_mental_health_response did, as a part of such a call
Generated(gen, category, before) ==
    [NoTurn EXCEPT !.retrieval = gen.retrieval, !.posts = gen.posts,
                   !.category = category, !.system = gen.system,
                   !.rag_context = gen.rag_context,
                   !.reply = IF gen.raised # "none" THEN None ELSE gen.response,
                   !.loaded = /\ gen.rag_manager # None
                              /\ gen.rag_manager.model # None
                              /\ before.model = None]

\* a gate that lets every message through
DetectNothing(message) == [crisis_detected |-> FALSE, keywords |-> {}]

\* the crisis gate of process_message, line 332
CrisisGate(message) == DetectCrisis(message)

\* process_message for a message that is not blank: the chat process and the
\* manager of its GroqClient afterwards
ProcessMessage(c, pr, message, dsk, api, loadOk, contextRaises) ==
    LET user == [role |-> "user", content |-> message]
        history == Append(c.history, user)
        made == RAGManagerInit(c.faiss_available, DefaultModel, dsk).raised
        \* lines 332-338
        Crisis(gate, crisis_response) ==
            [chat |-> [c EXCEPT
                 !.history = history \o <<[role |-> "assistant", content |-> crisis_response]>>,
                 !.chatbot = @ \o <<user, [role |-> "assistant", content |-> crisis_response]>>,
                 !.turn = [NoTurn EXCEPT !.reply = crisis_response]],
             peer |-> pr, sent |-> <<>>]
        \* lines 358-383, given what generate_mental_health_response did
        Answer(gen, turn) ==
            LET loads == IF turn.loaded THEN c.loads + 1 ELSE c.loads
            IN  IF gen.raised # "none"
                THEN [chat |-> [c EXCEPT
                          !.history = history,
                          !.chatbot = @ \o <<user, [role |-> "assistant",
                                                    content |-> ErrorMessage]>>,
                          !.loads = loads,
                          !.turn = [turn EXCEPT !.reply = ErrorMessage]],
                      peer |-> gen.rag_manager, sent |-> gen.messages]
                ELSE [chat |-> [c EXCEPT
                          !.history = history \o <<[role |-> "assistant",
                                                    content |-> gen.response]>>,
                          !.chatbot = @ \o <<user, [role |-> "assistant",
                                                    content |-> gen.response]>>,
                          !.loads = loads,
                          !.turn = [turn EXCEPT !.reply = gen.response]],
                      peer |-> gen.rag_manager, sent |-> gen.messages]
        Turn(groq, gen) ==
            Answer(gen, [Generated(gen, c.category, groq.rag_manager) EXCEPT
                             !.client = "created",
                             !.manager = IF made = "none" THEN "constructed" ELSE made])
        \* lines 344-356, given what GroqClient() did
        Core(groq) ==
            IF groq.raised # "none"
            THEN [chat |-> [c EXCEPT
                      !.history = history,
                      !.chatbot = @ \o <<user, [role |-> "assistant",
                                                content |-> ErrorMessage]>>,
                      !.turn = [NoTurn EXCEPT !.client = groq.raised,
                                              !.reply = ErrorMessage]],
                  peer |-> pr, sent |-> <<>>]
            ELSE Turn(groq, GenerateMentalHealthResponse(
                                groq, message, c.category, TRUE,
                                SubSeq(history, 1, Len(history) - 1),
                                api, loadOk, contextRaises))
        Gate(gate) ==
            IF gate.crisis_detected
            THEN Crisis(gate, GetCrisisResponse(gate.keywords))
            ELSE Core(GroqClientInit(c.api_key, c.faiss_available, TRUE, dsk))
    IN  Gate(CrisisGate(message))

\* process_message: a message that is blank after strip() returns the chat and
\* the state as they are, line 322-323
IsBlank(message) == message.words = {}
ProcessMessageOrBlank(c, pr, message, dsk, api, loadOk, contextRaises) ==
    IF IsBlank(message) THEN [chat |-> c, peer |-> pr, sent |-> <<>>]
    ELSE ProcessMessage(c, pr, message, dsk, api, loadOk, contextRaises)

\* self: the RAGManager of the running process; disk: the three files of the
\* index directory; documents_dir: the files of the documents directory;
\* failures: the saves that met a failing write so far; last: the last call,
\* what it returned and what became of its save; chat: the chat process;
\* peer: the RAGManager of the GroqClient the chat process made last; saver:
\* the save that `self` has under way
VARIABLES self, disk, documents_dir, failures, last, chat, peer, saver

vars == <<self, disk, documents_dir, failures, last, chat, peer, saver>>

NoArgs == [k |-> 0, relevance_threshold |-> 0, max_context_length |-> 0,
           query |-> 0, category |-> NoCategory,
           text |-> <<>>, chunk_size |-> 0, chunk_overlap |-> 0,
           outcomes |-> <<>>, body |-> None, retry_attempts |-> 0, retry_delay |-> 0]
NoLast == [op |-> "none", ret |-> FALSE, save |-> "none", chunks |-> 0, args |-> NoArgs,
           result |-> <<>>, context |-> EmptyString, error |-> "none", embedded |-> NoText,
           given |-> None, text_splitter |-> None, stats |-> None]

\* the chat process before its first turn, with its dependencies installed
\* and its API key set
NoChat == [api_key |-> TRUE, faiss_available |-> TRUE, category |-> "General",
           history |-> <<>>, chatbot |-> <<>>, client |-> None, loads |-> 0,
           turn |-> NoTurn]

\* no save under way
NoSave == [pc |-> 0, before |-> None, chunks |-> 0,
           op |-> "none", line |-> 0, todo |-> <<>>, size |-> 0]

Init ==
    /\ disk = [index |-> Absent, documents |-> Absent, metadata |-> Absent]
    /\ documents_dir = <<>>
    /\ failures = 0
    /\ self = NewManager("all-MiniLM-L6-v2", disk)
    /\ last = [NoLast EXCEPT !.op = "construct", !.ret = TRUE]
    /\ chat = NoChat
    /\ peer = None
    /\ saver = NoSave

\* a process start: RAGManager(embeddings_model=name) on the same directories
ConstructWith(names) ==
    \E name \in names :
        /\ self' = NewManager(name, disk)
        /\ last' = [NoLast EXCEPT !.op = "construct", !.ret = TRUE]
        /\ UNCHANGED <<disk, documents_dir, failures, chat, peer, saver>>

\* a process start under the default configuration (RAG_EMBEDDINGS_MODEL unset)
Restart == ConstructWith({"all-MiniLM-L6-v2"})

\* a process start under whichever model RAG_EMBEDDINGS_MODEL names
Construct == ConstructWith(ModelNames)

\* the corpus-management collaborator puts files into documents_dir
WriteDocuments ==
    \E dir \in Corpora :
        /\ dir # documents_dir
        /\ documents_dir' = dir
        /\ last' = [NoLast EXCEPT !.op = "write_documents", !.ret = TRUE]
        /\ UNCHANGED <<self, disk, failures, chat, peer, saver>>

\* the inputs of a mutation that its code reads: a model-load failure is read
\* only when no model is loaded yet
LoadOutcomes(s) == IF s.model = None THEN BOOLEAN ELSE {TRUE}

AddMetadataInputs == {[source |-> "manual_input"]}

\* what a call leaves in `last` and in the count of failed saves
Record(op, out, wf) ==
    /\ out.save = "none" => wf = NoWriteFailure
    /\ wf # NoWriteFailure => failures < MaxWriteFailures
    /\ failures' = IF out.save = "failed" THEN failures + 1 ELSE failures
    /\ last' = [NoLast EXCEPT !.op = op, !.ret = out.ret, !.save = out.save,
                              !.chunks = out.chunks, !.error = out.error]
    /\ UNCHANGED <<chat, peer, saver>>

\* a call of index_documents whose writes fail as some member of F says
IndexDocumentsWith(F) ==
    \E loadOk \in LoadOutcomes(self), wf \in F :
        LET out == IndexDocuments(self, documents_dir, disk, loadOk, wf)
        IN  /\ Record("index_documents", out, wf)
            /\ self' = out.self
            /\ disk' = out.disk
            /\ UNCHANGED documents_dir

\* a call of add_document_from_text whose writes fail as some member of F says
AddDocumentFromTextWith(F) ==
    \E text \in Contents, metadata \in AddMetadataInputs,
       loadOk \in LoadOutcomes(self), wf \in F :
        LET out == AddDocumentFromText(self, text, metadata, disk, loadOk, wf)
        IN  /\ self.documents # None => Len(self.documents.list) + Len(text) <= MaxChunks
            /\ self.index # None => Ntotal(self.index) + Len(text) <= MaxChunks
            /\ Record("add_document_from_text", out, wf)
            /\ self' = out.self
            /\ disk' = out.disk
            /\ UNCHANGED documents_dir

IndexDocumentsCall == IndexDocumentsWith(WriteFailures)
AddDocumentFromTextCall == AddDocumentFromTextWith(WriteFailures)

\* the same calls on a disk that takes every write
IndexDocumentsSaved == IndexDocumentsWith({NoWriteFailure})
AddDocumentFromTextSaved == AddDocumentFromTextWith({NoWriteFailure})

Queries == Texts
CategoryInputs == {NoCategory, "Anxiety"}
Thresholds == {1, 5, Infinity}

SearchRelevantContentCall ==
    \E query \in Queries, k \in 1..MaxK, category \in CategoryInputs,
       relevance_threshold \in Thresholds, loadOk \in LoadOutcomes(self) :
        LET out == SearchRelevantContent(self, query, k, category, relevance_threshold, loadOk)
        IN  /\ self' = out.self
            /\ last' = [NoLast EXCEPT !.op = "search_relevant_content", !.ret = TRUE,
                                      !.args = [NoArgs EXCEPT !.k = k,
                                                    !.relevance_threshold = relevance_threshold],
                                      !.result = out.result, !.error = out.error]
            /\ UNCHANGED <<disk, documents_dir, failures, chat, peer, saver>>

\* the life of the index under the default configuration: construction, corpus
\* changes and mutations, on a disk whose writes can fail
Next ==
    \/ Restart
    \/ WriteDocuments
    \/ IndexDocumentsCall
    \/ AddDocumentFromTextCall

Spec == Init /\ [][Next]_vars

\* retrieval: the life of the index under any configured model, on a disk that
\* takes every write, and searches
NextSearch ==
    \/ Construct
    \/ WriteDocuments
    \/ IndexDocumentsSaved
    \/ AddDocumentFromTextSaved
    \/ SearchRelevantContentCall

SpecSearch == Init /\ [][NextSearch]_vars

\* the category arguments of a search: None or '', the default and another
QueryCategories == {NoCategory, "General", "Anxiety"}
QueryThresholds == {1, Infinity}

\* search_relevant_content, the query, the category and the text it embedded
\* on record
SearchQueryCall ==
    \E query \in Queries, k \in 1..MaxK, category \in QueryCategories,
       relevance_threshold \in QueryThresholds, loadOk \in LoadOutcomes(self) :
        \E out \in {SearchRelevantContent(self, query, k, category, relevance_threshold,
                                          loadOk)} :
            /\ self' = out.self
            /\ last' = [NoLast EXCEPT !.op = "search_relevant_content", !.ret = TRUE,
                                      !.args = [NoArgs EXCEPT !.k = k, !.query = query,
                                                    !.category = category,
                                                    !.relevance_threshold = relevance_threshold],
                                      !.result = out.result, !.error = out.error,
                                      !.embedded = out.embedded]
            /\ UNCHANGED <<disk, documents_dir, failures, chat, peer, saver>>

\* what a query is embedded as and matched with: managers under any configured
\* model, texts added, and searches
NextQuery ==
    \/ Construct
    \/ AddDocumentFromTextSaved
    \/ SearchQueryCall

SpecQuery == Init /\ [][NextQuery]_vars

\* the texts given to the splitter: every text of at most MaxTextLen
\* characters, and two documents of 120 characters, one without whitespace
\* and one of fifteen words
MaxTextLen == 5
MaxChunkSize == 3
Alphabet == {"a", " ", "\n"}
Letters == <<"a", "b", "c", "d", "e", "f", "g">>
Unbroken == [i \in 1..120 |-> Letters[(i % 7) + 1]]
Worded == [i \in 1..120 |-> IF i % 8 = 0 THEN " " ELSE Letters[(i % 7) + 1]]
SplitTexts == UNION {[1..n -> Alphabet] : n \in 0..MaxTextLen}

\* the chunk_size and chunk_overlap arguments of a construction: omitted
\* (None) or an integer
SizeArgs == {None} \cup {PyInt(v) : v \in 1..MaxChunkSize} \cup {PyInt(50)}
OverlapArgs == {None} \cup {PyInt(v) : v \in 0..MaxChunkSize} \cup {PyInt(10)}

\* RAGManager(chunk_size=..., chunk_overlap=...) in a process where faiss is
\* installed: the sizes the manager stores, its text splitter and get_stats()
ConstructChunking ==
    \E chunk_size \in SizeArgs, chunk_overlap \in OverlapArgs :
        \E made \in {RAGManagerChunking(chunk_size, chunk_overlap)} :
            /\ last' = [NoLast EXCEPT !.op = "construct", !.ret = made.raised = "none",
                                      !.error = made.raised,
                                      !.given = [chunk_size |-> chunk_size,
                                                 chunk_overlap |-> chunk_overlap],
                                      !.text_splitter = made.text_splitter,
                                      !.stats = IF made.raised = "none"
                                                THEN GetStats(made) ELSE None]
            /\ UNCHANGED <<self, disk, documents_dir, failures, chat, peer, saver>>

\* the texts split under a splitter: every short text, and under
\* chunk_size=50, chunk_overlap=10 the documents of 120 characters too
TextsFor(text_splitter) ==
    IF text_splitter = [chunk_size |-> 50, chunk_overlap |-> 10]
    THEN SplitTexts \cup {Unbroken, Worded} ELSE SplitTexts

\* the split add_document_from_text makes of its text, on the manager just
\* constructed
SplitDocumentsCall ==
    /\ last.op = "construct" /\ last.text_splitter # None
    /\ \E text \in TextsFor(last.text_splitter) :
        \E chunks \in {SplitDocument(Document(text, [source |-> "manual_input"]),
                                     last.text_splitter.chunk_size,
                                     last.text_splitter.chunk_overlap)} :
            /\ last' = [NoLast EXCEPT !.op = "split_documents", !.ret = chunks # <<>>,
                                      !.args = [NoArgs EXCEPT !.text = text,
                                          !.chunk_size = last.text_splitter.chunk_size,
                                          !.chunk_overlap = last.text_splitter.chunk_overlap],
                                      !.result = chunks]
            /\ UNCHANGED <<self, disk, documents_dir, failures, chat, peer, saver>>

\* managers constructed with or without their chunking arguments, and the
\* texts they split
NextSplit ==
    \/ ConstructChunking
    \/ SplitDocumentsCall

SpecSplit == Init /\ [][NextSplit]_vars

\* the queries, categories and budgets of the context calls: a query may be
\* about a passage the corpus lacks; the budgets lie under, between and over
\* the lengths of one and two chunks
ContextQueries == 1..(NTexts + 1)
ContextCategories == {"General", "Anxiety"}
MaxContextLengths == {50, 110, 170, 180, 2000}

GetContextForQueryCall ==
    \E query \in ContextQueries, category \in ContextCategories,
       max_context_length \in MaxContextLengths, loadOk \in LoadOutcomes(self) :
        LET out == GetContextForQuery(self, query, category, max_context_length, loadOk)
        IN  /\ self' = out.self
            /\ last' = [NoLast EXCEPT !.op = "get_context_for_query", !.ret = TRUE,
                                      !.args = [k |-> ContextK,
                                                relevance_threshold |-> ContextThreshold,
                                                max_context_length |-> max_context_length,
                                                query |-> query, category |-> category],
                                      !.result = out.relevant_docs,
                                      !.context = out.context, !.error = out.error]
            /\ UNCHANGED <<disk, documents_dir, failures, chat, peer, saver>>

\* context assembly: the life of the index under the default configuration, on
\* a disk that takes every write, and context calls
NextContext ==
    \/ Restart
    \/ WriteDocuments
    \/ IndexDocumentsSaved
    \/ AddDocumentFromTextSaved
    \/ GetContextForQueryCall

SpecContext == Init /\ [][NextContext]_vars

\* the chat: messages with or without a crisis keyword, and what the API does
MaxTurns == 1
MaxLoads == 2
Vocabulary == {"hopeless", "tired"}
ChatMessages == [words : {{"tired"}, Vocabulary}, query : {1}]
ApiBodies == {[choices |-> <<[kind |-> "llm", keyword |-> TRUE, note |-> FALSE]>>],
              [choices |-> <<[kind |-> "llm", keyword |-> FALSE, note |-> FALSE]>>],
              [choices |-> <<[kind |-> "malformed"]>>],
              [error |-> TRUE]}
ApiOutcomes == [fails : {0}, body : ApiBodies]
               \cup {[fails |-> RetryAttempts, body |-> [error |-> TRUE]]}

\* a chat process starts: with or without its API key, with or without faiss
StartChat ==
    \E api_key \in BOOLEAN, faiss_available \in BOOLEAN :
        /\ chat' = [NoChat EXCEPT !.api_key = api_key, !.faiss_available = faiss_available]
        /\ peer' = None
        /\ last' = [NoLast EXCEPT !.op = "start_chat", !.ret = TRUE]
        /\ UNCHANGED <<self, disk, documents_dir, failures, saver>>

\* a submitted message that is not blank
ProcessMessageCall ==
    \E message \in ChatMessages, api \in ApiOutcomes, loadOk \in BOOLEAN,
       contextRaises \in BOOLEAN :
        \E out \in {ProcessMessage(chat, peer, message, disk, api, loadOk, contextRaises)} :
            /\ Len(chat.chatbot) < 2 * MaxTurns
            /\ chat.loads < MaxLoads
            /\ chat' = out.chat
            /\ peer' = out.peer
            /\ last' = [NoLast EXCEPT !.op = "process_message", !.ret = TRUE]
            /\ UNCHANGED <<self, disk, documents_dir, failures, saver>>

\* the messages given to generate_mental_health_response directly, and the
\* model-load outcomes its manager can read
GenerateMessages == {m \in ChatMessages : DetectCrisis(m).keywords = {}}
PeerLoadOutcomes == IF peer = None THEN {TRUE} ELSE LoadOutcomes(peer)

\* GroqClient(enable_rag=...) kept by the process
NewClient ==
    \E enable_rag \in BOOLEAN :
        LET groq == GroqClientInit(chat.api_key, chat.faiss_available, enable_rag, disk)
            made == RAGManagerInit(chat.faiss_available, DefaultModel, disk).raised
        IN  /\ chat' = [chat EXCEPT
                   !.client = IF groq.raised = "none"
                              THEN [enable_rag |-> groq.enable_rag] ELSE None,
                   !.turn = [NoTurn EXCEPT
                       !.client = IF groq.raised = "none" THEN "created" ELSE groq.raised,
                       !.manager = IF groq.raised # "none" \/ ~enable_rag THEN "none"
                                   ELSE IF made = "none" THEN "constructed" ELSE made]]
            /\ peer' = groq.rag_manager
            /\ last' = [NoLast EXCEPT !.op = "new_client", !.ret = groq.raised = "none"]
            /\ UNCHANGED <<self, disk, documents_dir, failures, saver>>

\* generate_mental_health_response called on the GroqClient the process keeps,
\* whose manager is `peer`
GenerateCall ==
    \E message \in GenerateMessages, category \in SystemMessageKeys, use_rag \in BOOLEAN,
       api \in ApiOutcomes, loadOk \in PeerLoadOutcomes, contextRaises \in BOOLEAN :
        LET client == [raised |-> "none", enable_rag |-> chat.client.enable_rag,
                       rag_manager |-> peer]
        IN  /\ chat.client # None
            /\ chat.loads < MaxLoads
            /\ \E gen \in {GenerateMentalHealthResponse(client, message, category, use_rag,
                                                        <<>>, api, loadOk, contextRaises)} :
               \E turn \in {Generated(gen, category, peer)} :
                   /\ chat' = [chat EXCEPT !.turn = [turn EXCEPT !.client = "kept"],
                                           !.loads = IF turn.loaded THEN @ + 1 ELSE @]
                   /\ peer' = gen.rag_manager
                   /\ last' = [NoLast EXCEPT !.op = "generate_mental_health_response",
                                             !.ret = gen.raised = "none"]
                   /\ UNCHANGED <<self, disk, documents_dir, failures, saver>>

\* update_category
UpdateCategory ==
    \E category \in SystemMessageKeys :
        /\ category # chat.category
        /\ chat' = [chat EXCEPT !.category = category]
        /\ last' = [NoLast EXCEPT !.op = "update_category", !.ret = TRUE]
        /\ UNCHANGED <<self, disk, documents_dir, failures, peer, saver>>

\* clear_conversation: the chat emptied, the category that of the selector's
\* initial value
ClearConversation ==
    /\ chat.chatbot # <<>>
    /\ chat' = [chat EXCEPT !.category = "General", !.history = <<>>, !.chatbot = <<>>]
    /\ last' = [NoLast EXCEPT !.op = "clear_conversation", !.ret = TRUE]
    /\ UNCHANGED <<self, disk, documents_dir, failures, peer, saver>>

\* the chat process beside the process that manages the index
NextChat ==
    \/ StartChat
    \/ AddDocumentFromTextSaved
    \/ ProcessMessageCall
    \/ UpdateCategory
    \/ ClearConversation

SpecChat == Init /\ [][NextChat]_vars

\* a process that keeps one GroqClient and asks it for responses, beside the
\* process that manages the index
NextGenerate ==
    \/ StartChat
    \/ AddDocumentFromTextSaved
    \/ NewClient
    \/ GenerateCall

SpecGenerate == Init /\ [][NextGenerate]_vars

\* ------------------------------------------------- a save seen from outside
\* the steps of _save_index as another process sees them: each of the three
\* files is opened for writing, which truncates it, and then holds its new
\* content; steps 1-2 are index.faiss, 3-4 documents.pkl, 5-6 metadata.pkl
SaveSteps == 6
FileOf(pc) == IF pc <= 2 THEN "index" ELSE IF pc <= 4 THEN "documents" ELSE "metadata"

Written(s, file) ==
    IF file = "index" THEN WriteIndex(s.index)
    ELSE IF file = "documents" THEN PickleDump(s.documents)
    ELSE PickleDump(s.metadata)

\* the disk after step pc of the save of s
SaveStep(s, dsk, pc) ==
    [dsk EXCEPT ![FileOf(pc)] = IF pc % 2 = 1 THEN Corrupt ELSE Written(s, FileOf(pc))]

\* add_document_from_text up to its call of _save_index; a call that returns
\* before the save is whole
BeginAdd ==
    \E text \in Contents, metadata \in AddMetadataInputs, loadOk \in LoadOutcomes(self) :
        LET out == AddDocumentFromText(self, text, metadata, disk, loadOk, NoWriteFailure)
        IN  /\ saver.pc = 0
            /\ self.documents # None => Len(self.documents.list) + Len(text) <= MaxChunks
            /\ self' = out.self
            /\ saver' = IF out.save = "ok"
                        THEN [NoSave EXCEPT !.pc = 1, !.before = disk, !.chunks = out.chunks]
                        ELSE NoSave
            /\ last' = IF out.save = "ok" THEN [NoLast EXCEPT !.op = "saving"]
                       ELSE [NoLast EXCEPT !.op = "add_document_from_text", !.ret = out.ret,
                                           !.chunks = out.chunks, !.error = out.error]
            /\ UNCHANGED <<disk, documents_dir, failures, chat, peer>>

\* one step of the save under way; after the last one the call returns True
SaveStepCall ==
    /\ saver.pc # 0
    /\ disk' = SaveStep(self, disk, saver.pc)
    /\ saver' = IF saver.pc = SaveSteps THEN NoSave ELSE [saver EXCEPT !.pc = @ + 1]
    /\ last' = IF saver.pc = SaveSteps
               THEN [NoLast EXCEPT !.op = "add_document_from_text", !.ret = TRUE,
                                   !.save = "ok", !.chunks = saver.chunks]
               ELSE [NoLast EXCEPT !.op = "saving"]
    /\ UNCHANGED <<self, documents_dir, failures, chat, peer>>

\* add_document_from_text on a thread of its own, up to index.add
BeginAddStatements ==
    \E text \in Contents, metadata \in AddMetadataInputs, loadOk \in LoadOutcomes(self) :
        \E out \in {AddPrepared(self, text, metadata, loadOk)} :
            /\ saver.line = 0
            /\ self.documents # None => Len(self.documents.list) + Len(text) <= MaxChunks
            /\ self' = out.self
            /\ saver' = IF out.error = "none"
                        THEN [NoSave EXCEPT !.op = "add_document_from_text", !.line = 394,
                                            !.todo = out.chunks, !.chunks = Len(out.chunks),
                                            !.size = Len(out.self.documents.list)]
                        ELSE NoSave
            /\ last' = IF out.error = "none" THEN [NoLast EXCEPT !.op = "mutating"]
                       ELSE [NoLast EXCEPT !.op = "add_document_from_text",
                                           !.chunks = Len(out.chunks),
                                           !.error = IF out.error = "no_chunks"
                                                     THEN "none" ELSE out.error]
            /\ UNCHANGED <<disk, documents_dir, failures, chat, peer>>

\* index_documents on a thread of its own, up to the new index
BeginIndexStatements ==
    \E loadOk \in LoadOutcomes(self) :
        \E out \in {IndexPrepared(self, documents_dir, loadOk)} :
            /\ saver.line = 0
            /\ self' = out.self
            /\ saver' = IF out.error = "none"
                        THEN [NoSave EXCEPT !.op = "index_documents", !.line = 204,
                                            !.todo = out.chunks, !.chunks = Len(out.chunks),
                                            !.size = IF out.self.documents = None THEN 0
                                                      ELSE Len(out.self.documents.list)]
                        ELSE NoSave
            /\ last' = IF out.error = "none" THEN [NoLast EXCEPT !.op = "mutating"]
                       ELSE [NoLast EXCEPT !.op = "index_documents",
                                           !.error = IF out.error = "no_documents"
                                                     THEN "none" ELSE out.error]
            /\ UNCHANGED <<disk, documents_dir, failures, chat, peer>>

\* the next statement of the mutation under way; at lines 407 and 212 the
\* save, after which the call returns True
StatementCall ==
    /\ saver.line # 0
    /\ IF saver.line \in {407, 212}
       THEN /\ disk' = SaveIndex(self, disk, NoWriteFailure)
            /\ saver' = NoSave
            /\ last' = [NoLast EXCEPT !.op = saver.op, !.ret = TRUE, !.save = "ok",
                                      !.chunks = saver.chunks]
            /\ UNCHANGED self
       ELSE /\ self' = Statement(self, saver)
            /\ saver' = Advance(saver)
            /\ last' = [NoLast EXCEPT !.op = "mutating"]
            /\ UNCHANGED disk
    /\ UNCHANGED <<documents_dir, failures, chat, peer>>

\* search_relevant_content on another thread, with no category and a
\* threshold that keeps every neighbour found
SearchBetweenCall ==
    \E query \in Queries, k \in 1..MaxK, loadOk \in LoadOutcomes(self) :
        \E out \in {SearchRelevantContent(self, query, k, NoCategory, Infinity, loadOk)} :
            /\ self' = out.self
            /\ last' = [NoLast EXCEPT !.op = "search_relevant_content", !.ret = TRUE,
                                      !.args = [NoArgs EXCEPT !.k = k, !.query = query,
                                                    !.relevance_threshold = Infinity],
                                      !.result = out.result, !.error = out.error]
            /\ UNCHANGED <<disk, documents_dir, failures, chat, peer, saver>>

\* one RAGManager shared by threads without a lock: mutations that go
\* statement by statement, and searches that run between two statements
NextInterleaved ==
    \/ WriteDocuments
    \/ BeginAddStatements
    \/ BeginIndexStatements
    \/ StatementCall
    \/ SearchBetweenCall

SpecInterleaved == Init /\ [][NextInterleaved]_vars

\* ---------------------------------------------------------------- a session
\* the turns of one session of the interface, blank messages among them, and
\* calls of generate_mental_health_response with the history of a long session
MaxSessionTurns == 3
BlankMessage == [words |-> {}, query |-> 1]
SessionMessages == ChatMessages \cup {BlankMessage}
SessionApiOutcomes == {a \in ApiOutcomes : a.fails > 0 \/ "choices" \in DOMAIN a.body}

\* process_message on the state of the session
SessionTurn ==
    \E message \in SessionMessages, api \in SessionApiOutcomes :
        \E out \in {ProcessMessageOrBlank(chat, peer, message, disk, api, TRUE, FALSE)} :
            /\ Len(chat.chatbot) < 2 * MaxSessionTurns
            /\ chat' = out.chat
            /\ peer' = out.peer
            /\ last' = [NoLast EXCEPT !.op = "process_message", !.ret = TRUE,
                                      !.given = [user_message |-> message,
                                                 prior |-> chat.history],
                                      !.result = out.sent]
            /\ UNCHANGED <<self, disk, documents_dir, failures, saver>>

\* the history of a session of n entries, the i-th the i-th text said
History(n) ==
    [i \in 1..n |-> [role |-> IF i % 2 = 1 THEN "user" ELSE "assistant", content |-> i]]
HistoryLengths == {0, 1, 2, HistoryLimit - 1, HistoryLimit, HistoryLimit + 1, HistoryLimit + 3}

\* generate_mental_health_response(message, conversation_history=...) on a
\* client made for the call
GenerateWithHistory ==
    \E message \in GenerateMessages, n \in HistoryLengths, api \in SessionApiOutcomes :
        \E groq \in {GroqClientInit(chat.api_key, chat.faiss_available, TRUE, disk)} :
            /\ groq.raised = "none"
            /\ \E gen \in {GenerateMentalHealthResponse(groq, message, chat.category, TRUE,
                                                        History(n), api, TRUE, FALSE)} :
                /\ peer' = gen.rag_manager
                /\ last' = [NoLast EXCEPT !.op = "generate_mental_health_response",
                                          !.ret = gen.raised = "none",
                                          !.given = [user_message |-> message,
                                                     prior |-> History(n)],
                                          !.result = gen.messages]
                /\ UNCHANGED <<self, disk, documents_dir, failures, chat, saver>>

NextSession ==
    \/ StartChat
    \/ SessionTurn
    \/ GenerateWithHistory

SpecSession == Init /\ [][NextSession]_vars

\* ------------------------------------------------------ messages in crisis
\* what stands before and after a keyword in a message
Before == {<<>>, <<"s", "o", " ">>, <<"I", " ">>}
After == {<<>>, <<" ", "n", "o", "w">>, <<"!">>}

\* messages without a keyword
CalmMessages == {<<>>, <<"h", "e", "l", "l", "o">>, <<"I", " ", "f", "e", "e", "l", " ", "O", "K">>,
                 <<"d", "i", "e", "t">> , <<"D", "I", "R", "E">>}

\* every keyword as written, lowercased and in capitals, alone or inside a
\* sentence, and the calm messages
CrisisMessages ==
    {b \o w \o a : b \in Before, a \in After,
                   w \in UNION {{CrisisKeywordList[i], Lower(CrisisKeywordList[i]),
                                 Upper(CrisisKeywordList[i])} :
                                i \in 1..Len(CrisisKeywordList)}}
    \cup CalmMessages

\* detect_crisis(message)
DetectCrisisCall ==
    \E message \in CrisisMessages :
        \E out \in {DetectCrisisChars(message)} :
            /\ last' = [NoLast EXCEPT !.op = "detect_crisis", !.ret = out.crisis_detected,
                                      !.args = [NoArgs EXCEPT !.text = message],
                                      !.result = out.keywords]
            /\ UNCHANGED <<self, disk, documents_dir, failures, chat, peer, saver>>

\* the safety check of the interface, on the messages of a user
NextCrisis ==
    \/ StartChat
    \/ DetectCrisisCall

SpecCrisis == Init /\ [][NextCrisis]_vars

\* ------------------------------------------------------ requests and retries
MaxRetryAttempts == 3
RetryDelays == {1, 2}
RequestOutcomes == {"ok", "ConnectionError", "HTTPError"}

\* chat_completion against an API whose requests succeed or fail one by one
ChatCompletionCall ==
    \E retry_attempts \in 0..MaxRetryAttempts, retry_delay \in RetryDelays,
       body \in ApiBodies :
      \E outcomes \in [1..retry_attempts -> RequestOutcomes] :
        /\ chat.client # None
        /\ last' = [NoLast EXCEPT !.op = "chat_completion", !.ret = TRUE,
                                  !.args = [NoArgs EXCEPT !.outcomes = outcomes,
                                                !.body = body,
                                                !.retry_attempts = retry_attempts,
                                                !.retry_delay = retry_delay],
                                  !.result = ChatCompletionRetrying(outcomes, body,
                                                 retry_attempts, retry_delay)]
        /\ UNCHANGED <<self, disk, documents_dir, failures, chat, peer, saver>>

\* a client that is constructed and then asked for completions
NextRetry ==
    \/ NewClient
    \/ ChatCompletionCall

SpecRetry == Init /\ [][NextRetry]_vars

\* a save in steps, and GroqClients made on the same index directory meanwhile;
\* each loads the three files as they are at one moment
NextConcurrent ==
    \/ BeginAdd
    \/ SaveStepCall
    \/ NewClient

SpecConcurrent == Init /\ [][NextConcurrent]_vars

\* =============================================================== claims
Triple(s) == <<s.index, s.documents, s.metadata>>

Mutated(l) == l.op \in {"index_documents", "add_document_from_text"}

\* the items of a list that may be None
Items(l) == IF l = None THEN <<>> ELSE l.list
Vectors(index) == IF index = None THEN <<>> ELSE index.xb

\* C1: whenever index_documents or add_document_from_text returns True, the
\* index's vector count equals the number of chunk texts and the number of
\* chunk metadata records.
C1_CoIndexed ==
    (Mutated(last) /\ last.ret) =>
        /\ Ntotal(self.index) = Len(self.documents.list)
        /\ Ntotal(self.index) = Len(self.metadata.list)

\* C2: a mutation whose save met a failing write returns False.
C2_FailedSaveReported ==
    (Mutated(last) /\ last.save = "failed") => ~last.ret

\* C3: a save that fails partway leaves the prior artifact on disk: a load
\* after it yields the triple a load before the mutation yielded.
C3_PriorArtifactIntact ==
    [][last'.save = "failed" =>
         \A name \in ModelNames :
             Triple(NewManager(name, disk')) = Triple(NewManager(name, disk))]_vars

\* C4: after construction the triple is either wholly loaded from the
\* artifact, and then all three files existed and deserialized, or wholly
\* absent; construction returns in either case.
C4_LoadAllOrNothing ==
    last.op = "construct" =>
        /\ last.ret
        /\ \/ /\ self.index = None /\ self.documents = None /\ self.metadata = None
           \/ /\ disk.index.st = "ok" /\ disk.documents.st = "ok" /\ disk.metadata.st = "ok"
              /\ self.index = ReadIndex(disk.index)
              /\ self.documents = PickleLoad(disk.documents)
              /\ self.metadata = PickleLoad(disk.metadata)

\* C4 witness: the three files exist, one of them is corrupt, and the
\* constructed manager holds nothing.
C4_Witness ==
    /\ last.op = "construct"
    /\ disk.index.st = "ok" /\ disk.documents.st = "corrupt" /\ disk.metadata.st = "ok"
    /\ self.index = None /\ self.documents = None /\ self.metadata = None

\* the directory holds no file with non-blank content
NoContent(dir) == \A i \in 1..Len(dir) : dir[i].content = <<>>

\* C5: with no non-blank file in the documents directory, index_documents
\* returns False and leaves the in-memory triple and the three files as they
\* were.
C5_EmptyCorpusNoChange ==
    [][(last'.op = "index_documents" /\ NoContent(documents_dir)) =>
         /\ ~last'.ret
         /\ Triple(self') = Triple(self)
         /\ disk' = disk]_vars

\* C5 witness: index_documents has failed on a directory holding only a blank
\* file, with an index in memory and an artifact on disk.
C5_Witness ==
    /\ last.op = "index_documents" /\ ~last.ret
    /\ documents_dir # <<>> /\ NoContent(documents_dir)
    /\ self.model # None
    /\ self.index # None /\ disk.index.st = "ok"

\* C6: after a successful mutation whose save met no failure, a manager
\* constructed on the same index directory holds the triple of the mutating
\* manager.
C6_SaveLoadRoundTrip ==
    (Mutated(last) /\ last.ret /\ last.save = "ok") =>
        \A name \in ModelNames : Triple(NewManager(name, disk)) = Triple(self)

\* C6 witness: a successful, saved mutation with two chunks in the index.
C6_Witness ==
    /\ Mutated(last) /\ last.ret /\ last.save = "ok"
    /\ Ntotal(self.index) = 2 /\ Len(self.documents.list) = 2

\* s is a prefix of t, which has n more items
GrownBy(s, t, n) == Len(t) = Len(s) + n /\ SubSeq(t, 1, Len(s)) = s

\* C7: a successful add_document_from_text that yields n chunks keeps the
\* previous texts, metadata and vectors as a prefix, grows each collection by
\* n, and leaves the distance from any query to an earlier chunk as it was.
C7_AppendOnly ==
    [][(last'.op = "add_document_from_text" /\ last'.ret) =>
         /\ last'.chunks >= 1
         /\ GrownBy(Items(self.documents), self'.documents.list, last'.chunks)
         /\ GrownBy(Items(self.metadata), self'.metadata.list, last'.chunks)
         /\ GrownBy(Vectors(self.index), self'.index.xb, last'.chunks)
         /\ \A i \in 1..Len(Vectors(self.index)), query \in Texts :
                LET x == EncodeOne(self'.model.name, query)
                IN  L2(self'.index.xb[i], x) = L2(self.index.xb[i], x)]_vars

\* C7 witness: a successful addition to an index that held chunks before.
C7_Witness ==
    /\ last.op = "add_document_from_text" /\ last.ret
    /\ last.chunks >= 1
    /\ Len(self.documents.list) > last.chunks

\* the passages of the directory's files, in order
CorpusTexts(dir) == Flatten([i \in 1..Len(dir) |-> dir[i].content])

\* the name of the file each passage comes from, in order
CorpusSources(dir) ==
    Flatten([i \in 1..Len(dir) |-> [j \in 1..Len(dir[i].content) |-> dir[i].name]])

\* C8: after a successful index_documents the index and its lists hold
\* exactly the chunks of the documents in the directory, in order, at least
\* one, and nothing else.
C8_WholesaleRebuild ==
    (last.op = "index_documents" /\ last.ret) =>
        /\ self.documents.list = CorpusTexts(documents_dir)
        /\ Len(self.documents.list) >= 1
        /\ self.index.xb = Encode(self.model.name, CorpusTexts(documents_dir))
        /\ Len(self.metadata.list) = Len(CorpusTexts(documents_dir))
        /\ \A i \in 1..Len(self.metadata.list) :
               /\ self.metadata.list[i].source_file = CorpusSources(documents_dir)[i]
               /\ self.metadata.list[i].chunk_id = i - 1

\* C8 witness: a successful rebuild from two files and a blank one between
\* them.
C8_Witness ==
    /\ last.op = "index_documents" /\ last.ret
    /\ Len(documents_dir) = 3
    /\ Len(self.documents.list) = 2

\* C9: when the embeddings of add_document_from_text have another dimension
\* than the existing index, the call returns False and the triple in memory
\* and the files on disk are unchanged.
C9_DimensionMismatchRejected ==
    [][(/\ last'.op = "add_document_from_text"
        /\ self.index # None
        /\ self.index.d # Dimension(self.embeddings_model_name)) =>
         /\ ~last'.ret
         /\ Triple(self') = Triple(self)
         /\ disk' = disk]_vars

\* C9 witness: an addition of one chunk or more, with the model loaded, has
\* failed on an index of another dimension.
C9_Witness ==
    /\ last.op = "add_document_from_text" /\ ~last.ret
    /\ last.chunks >= 1
    /\ self.model # None
    /\ self.index # None
    /\ self.index.d # Dimension(self.model.name)

\* C10: no element of the list search_relevant_content returns has a
\* relevance_score greater than or equal to the relevance_threshold supplied.
C10_ThresholdExclusion ==
    last.op = "search_relevant_content" =>
        \A j \in 1..Len(last.result) :
            last.result[j].relevance_score < last.args.relevance_threshold

\* C10 witness: a search for two neighbours, both in the index, has returned
\* one of them: the other lies at the threshold or beyond.
C10_Witness ==
    /\ last.op = "search_relevant_content"
    /\ self.index # None
    /\ last.args.k = 2 /\ Ntotal(self.index) = 2
    /\ last.args.relevance_threshold = 1
    /\ Len(last.result) = 1 /\ last.result[1].relevance_score = 0
    /\ \E i \in 1..2 : L2(self.index.xb[i], self.index.xb[3 - i]) = last.args.relevance_threshold

Min(a, b) == IF a < b THEN a ELSE b

\* the results come each from a position of its own among the n chunks, with
\* the text and the metadata held at that position
FromDistinctPositions(result, s) ==
    \E pos \in [1..Len(result) -> 1..Ntotal(s.index)] :
        /\ \A i, j \in 1..Len(result) : i # j => pos[i] # pos[j]
        /\ \A j \in 1..Len(result) :
               /\ pos[j] <= Len(s.documents.list)
               /\ pos[j] <= Len(s.metadata.list)
               /\ result[j].content = s.documents.list[pos[j]]
               /\ result[j].metadata = s.metadata.list[pos[j]]

\* C11: on an index of n chunks search_relevant_content returns at most
\* min(k, n) results, each from a distinct position in 0..n-1 with the content
\* and metadata of that position, in order of non-decreasing distance.
C11_BoundedDistinctOrdered ==
    (last.op = "search_relevant_content" /\ self.index # None) =>
        /\ Len(last.result) <= Min(last.args.k, Ntotal(self.index))
        /\ FromDistinctPositions(last.result, self)
        /\ \A j \in 1..Len(last.result) - 1 :
               last.result[j].relevance_score <= last.result[j + 1].relevance_score

\* no chunk of the index lies within the threshold of the query as embedded
NothingWithin(s, args) ==
    LET x == EncodeOne(s.embeddings_model_name, EnhancedQuery(args.query, args.category))
    IN  \A i \in 1..Ntotal(s.index) : L2(s.index.xb[i], x) >= args.relevance_threshold

\* C12: when the index is absent or empty, or no chunk lies below the
\* threshold in force, the search made by get_context_for_query returns the
\* empty list and get_context_for_query returns the empty string; both return.
C12_EmptyResult ==
    (/\ last.op = "get_context_for_query"
     /\ \/ self.index = None
        \/ Items(self.documents) = <<>>
        \/ NothingWithin(self, last.args)) =>
        /\ last.ret
        /\ last.result = <<>>
        /\ last.context = EmptyString
        /\ StrLen(last.context) = 0

\* C12 witness: a context call on an index holding chunks, none of them
\* within the threshold of the query, has returned the empty string.
C12_Witness ==
    /\ last.op = "get_context_for_query"
    /\ self.index # None /\ Ntotal(self.index) >= 1
    /\ self.model # None
    /\ NothingWithin(self, last.args)
    /\ last.context = EmptyString

\* C13: the string get_context_for_query returns is no longer than
\* max_context_length plus the "..." marker plus the delimiters between the
\* results it includes.
C13_ContextBudget ==
    last.op = "get_context_for_query" =>
        StrLen(last.context) <=
            last.args.max_context_length + MarkerLen
            + (IF Len(last.context.parts) > 1
               THEN DelimiterLen * (Len(last.context.parts) - 1) ELSE 0)

\* C17: when loading the embedding model fails, what index_documents,
\* add_document_from_text and search_relevant_content hand their caller is not
\* the False or the empty list of their ordinary failures.
C17_ModelLoadFailureSurfaced ==
    last.error = "model_load" =>
        /\ Mutated(last) => last.ret # FALSE
        /\ last.op = "search_relevant_content" => last.result # <<>>

\* the length of the first j results together
PrefixLen(docs, j) == SeqSum([i \in 1..j |-> TextLen(docs[i].content)])

\* the number of leading results that fit the budget whole
Fitting(docs, budget) == Cardinality({j \in 1..Len(docs) : PrefixLen(docs, j) <= budget})

\* C14: the context holds the results in order of ascending distance: each
\* leading result that fits the remaining budget whole; then the first that
\* does not fit, cut to the remaining budget and followed by "...", if and
\* only if the remaining budget exceeds 100 characters; and no result after it.
C14_ContextAssembly ==
    last.op = "get_context_for_query" =>
        LET docs == last.result
            parts == last.context.parts
            m == Fitting(docs, last.args.max_context_length)
            remaining == last.args.max_context_length - PrefixLen(docs, m)
        IN  /\ \A j \in 1..Len(docs) - 1 :
                   docs[j].relevance_score <= docs[j + 1].relevance_score
            /\ Len(parts) >= m
            /\ \A j \in 1..m : parts[j] = Whole(docs[j].content)
            /\ Len(parts) = IF m < Len(docs) /\ remaining > TruncationFloor
                            THEN m + 1 ELSE m
            /\ Len(parts) = m + 1 =>
                   /\ parts[m + 1].text = docs[m + 1].content
                   /\ parts[m + 1].chars = remaining
                   /\ parts[m + 1].marker

\* C14 witness: a context of one whole result and a second one cut to the
\* remaining budget, which exceeds the floor.
C14_Witness ==
    /\ last.op = "get_context_for_query"
    /\ Len(last.result) = 2 /\ Len(last.context.parts) = 2
    /\ ~last.context.parts[1].marker
    /\ last.context.parts[2].marker
    /\ last.context.parts[2].chars > TruncationFloor
    /\ last.context.parts[2].chars < TextLen(last.result[2].content)

\* the message of the turn just made
TurnMessage(c) == c.chatbot[Len(c.chatbot) - 1].content

\* C15: when detect_crisis signals a crisis for the message, process_message
\* makes no GroqClient and no RAGManager, asks for no context, loads no model
\* and posts no request, and the reply it appends is the crisis response.
C15_CrisisBypassesCore ==
    [][(/\ last'.op = "process_message"
        /\ DetectCrisis(TurnMessage(chat')).crisis_detected) =>
         /\ chat'.turn.client = "none"
         /\ chat'.turn.manager = "none"
         /\ ~chat'.turn.retrieval
         /\ ~chat'.turn.loaded
         /\ chat'.turn.posts = 0
         /\ peer' = peer
         /\ chat'.loads = chat.loads
         /\ Len(chat'.chatbot) = Len(chat.chatbot) + 2
         /\ chat'.chatbot[Len(chat'.chatbot)].role = "assistant"
         /\ chat'.chatbot[Len(chat'.chatbot)].content.kind = "crisis"
         /\ chat'.history[Len(chat'.history)].content.kind = "crisis"]_vars

\* C15 witness: a crisis reply in a process that has its API key and its
\* dependencies, with an index on disk.
C15_Witness ==
    /\ last.op = "process_message"
    /\ chat.api_key /\ chat.faiss_available
    /\ disk.index.st = "ok"
    /\ chat.turn.reply = GetCrisisResponse({"hopeless"})
    /\ chat.turn.client = "none"

\* C16: when RAG is off, the manager is missing, get_context_for_query raises
\* or returns the empty string, generate_mental_health_response still posts
\* its request, with the category's base system message and nothing else as
\* the system message, and appends no knowledge-base note to the reply.
C16_DegradesWithoutContext ==
    (/\ last.op = "generate_mental_health_response"
     /\ \/ ~chat.client.enable_rag
        \/ peer = None
        \/ ~chat.turn.retrieval
        \/ chat.turn.rag_context = EmptyString) =>
        /\ chat.turn.posts >= 1
        /\ chat.turn.system = [base |-> SystemMessage(chat.turn.category), rag |-> FALSE,
                               rag_context |-> EmptyString]
        /\ (chat.turn.reply # None /\ chat.turn.reply.kind = "llm") => ~chat.turn.reply.note

\* C16 witness: a reply with a keyword of the note, from a client whose
\* manager failed to initialise.
C16_Witness ==
    /\ last.op = "generate_mental_health_response"
    /\ ~chat.faiss_available /\ peer = None
    /\ chat.turn.posts = 1
    /\ chat.turn.reply # None /\ chat.turn.reply.kind = "llm"
    /\ chat.turn.reply.keyword /\ ~chat.turn.reply.note

\* C18 as stated: with the embedding library missing, the construction of a
\* RAGManager succeeds.
C18_ConstructionSucceeds ==
    (last.op = "new_client" /\ ~chat.faiss_available /\ chat.turn.manager # "none") =>
        /\ chat.turn.manager = "constructed"
        /\ peer # None

\* C18 as amended: with the embedding library missing, the construction of a
\* RAGManager raises ImportError: the client holds no manager and has RAG
\* off, and no response it generates asks for context or loads a model.
C18_ConstructionRaises ==
    /\ (last.op = "new_client" /\ ~chat.faiss_available /\ chat.turn.manager # "none") =>
           /\ chat.turn.manager = "ImportError"
           /\ peer = None
           /\ ~chat.client.enable_rag
    /\ (last.op = "generate_mental_health_response" /\ ~chat.faiss_available) =>
           /\ ~chat.turn.retrieval
           /\ ~chat.turn.loaded
           /\ peer = None

\* C18 witness: a response generated by a client made, with RAG asked for, in
\* a process without the embedding library.
C18_Witness ==
    /\ last.op = "generate_mental_health_response"
    /\ ~chat.faiss_available
    /\ chat.client # None /\ ~chat.client.enable_rag
    /\ peer = None
    /\ chat.turn.posts >= 1

\* C19: the chat process loads the embedding model at most once, and only in
\* a turn that asks for context, never when the manager is constructed.
C19_ModelLoadedOnce ==
    /\ chat.loads <= 1
    /\ chat.turn.loaded => chat.turn.retrieval

\* C20: a RAGManager constructed while another one saves loads the triple of
\* the new save, the triple of the save before it, or nothing: never some
\* files of the one with the others of the other.
C20_NoMixedLoad ==
    (last.op = "new_client" /\ saver.pc # 0 /\ peer # None) =>
        Triple(peer) \in {Triple(self),
                          Triple(NewManager(DefaultModel, saver.before)),
                          <<None, None, None>>}

\* C21: the text search_relevant_content embeds is the query prefixed with the
\* category exactly when a category is given and is not 'General'; for no
\* category, an empty one or 'General' it is the query unchanged.
C21_CategoryPrefix ==
    (last.op = "search_relevant_content" /\ last.embedded # NoText) =>
        IF last.args.category \in {NoCategory, "General"}
        THEN last.embedded = last.args.query
        ELSE /\ last.embedded = Prefixed(last.args.category, last.args.query)
             /\ last.embedded # last.args.query

\* C21 witness: a search under the category Anxiety has embedded the prefixed
\* query and returned.
C21_Witness ==
    /\ last.op = "search_relevant_content"
    /\ last.args.category = "Anxiety"
    /\ last.embedded = Prefixed("Anxiety", last.args.query)
    /\ last.error = "none"

\* the query text is the text of a chunk of the index
HoldsQueryText(s, args) ==
    /\ s.index # None /\ s.documents # None
    /\ \E i \in 1..Len(s.documents.list) : s.documents.list[i] = args.query

\* the first result is a chunk with the text of the query, at distance 0
SelfMatchFirst(l) ==
    /\ Len(l.result) >= 1
    /\ l.result[1].content = l.args.query
    /\ l.result[1].relevance_score = 0

\* C22 as stated: if the text of an indexed chunk is the query text,
\* search_relevant_content with k >= 1, a positive threshold and any category
\* argument returns that chunk first, at distance 0.
C22_SelfMatchAnyCategory ==
    (last.op = "search_relevant_content" /\ HoldsQueryText(self, last.args)) =>
        SelfMatchFirst(last)

\* C22 amended: if the text of an indexed chunk is the query text, the
\* category is None, empty or 'General', and the query was embedded by the
\* model the index was built with, search_relevant_content with k >= 1 and a
\* positive threshold returns a chunk with that text first, at distance 0.
C22_SelfMatch ==
    (/\ last.op = "search_relevant_content"
     /\ HoldsQueryText(self, last.args)
     /\ last.args.category \in {NoCategory, "General"}
     /\ last.embedded # NoText
     /\ self.index.d = Dimension(self.embeddings_model_name)) =>
        SelfMatchFirst(last)

\* C22 witness: a search for one neighbour under the category 'General', in an
\* index of two different chunks, has returned the chunk with the text of the
\* query at distance 0.
C22_Witness ==
    /\ last.op = "search_relevant_content"
    /\ HoldsQueryText(self, last.args)
    /\ last.args.category = "General" /\ last.args.k = 1
    /\ Ntotal(self.index) = 2 /\ self.documents.list[1] # self.documents.list[2]
    /\ self.documents.list[2] = last.args.query
    /\ SelfMatchFirst(last)

\* the lengths of the chunks a split returned
ChunkLens(l) == [j \in 1..Len(l.result) |-> Len(l.result[j].page_content)]

\* a split under a chunk_overlap smaller than the chunk_size
ValidSplit(l) == l.op = "split_documents" /\ l.args.chunk_overlap < l.args.chunk_size

\* C23 as stated: for any document and any chunk_size and chunk_overlap with
\* overlap < size, every chunk the manager's splitter makes is at most
\* chunk_size long, and a document shorter than chunk_size yields exactly one
\* chunk.
C23_BoundAndOneChunk ==
    ValidSplit(last) =>
        /\ \A j \in 1..Len(last.result) : ChunkLens(last)[j] <= last.args.chunk_size
        /\ Len(last.args.text) < last.args.chunk_size => Len(last.result) = 1

\* C23 amended: every chunk is at most chunk_size long, and a document
\* shorter than chunk_size that is not blank yields exactly one chunk.
C23_BoundAndOneChunkNotBlank ==
    ValidSplit(last) =>
        /\ \A j \in 1..Len(last.result) : ChunkLens(last)[j] <= last.args.chunk_size
        /\ (Len(last.args.text) < last.args.chunk_size /\ Strip(last.args.text) # <<>>) =>
               Len(last.result) = 1

\* C23 witness: a text longer than chunk_size was split into three chunks or
\* more, one of them as long as chunk_size.
C23_Witness ==
    /\ ValidSplit(last)
    /\ Len(last.args.text) > last.args.chunk_size
    /\ Len(last.result) >= 3
    /\ \E j \in 1..Len(last.result) : ChunkLens(last)[j] = last.args.chunk_size

\* a document of exactly 120 characters was split under chunk_size=50 and
\* chunk_overlap=10
Scenario(l) ==
    /\ l.op = "split_documents"
    /\ Len(l.args.text) = 120
    /\ l.args.chunk_size = 50 /\ l.args.chunk_overlap = 10

\* every chunk after the first begins with the last n characters of the one
\* before it
OverlapsBy(chunks, n) ==
    \A j \in 2..Len(chunks) :
        LET this == chunks[j].page_content
            previous == chunks[j - 1].page_content
        IN  /\ Len(this) >= n /\ Len(previous) >= n
            /\ SubSeq(this, 1, n) = SubSeq(previous, Len(previous) - n + 1, Len(previous))

\* C24 as stated: one document of exactly 120 characters, chunk_size=50 and
\* chunk_overlap=10, yields exactly 3 chunks of lengths 50, 50 and 30, each
\* after the first beginning with the last 10 characters of the previous one.
C24_Lengths50_50_30 ==
    Scenario(last) => ChunkLens(last) = <<50, 50, 30>> /\ OverlapsBy(last.result, 10)

\* C24 amended: one document of exactly 120 characters that holds no space
\* and no newline, chunk_size=50 and chunk_overlap=10, yields exactly 3 chunks
\* of lengths 50, 50 and 40, each after the first beginning with the last 10
\* characters of the previous one.
C24_Lengths50_50_40 ==
    (Scenario(last) /\ \A i \in 1..120 : last.args.text[i] \notin Whitespace) =>
        ChunkLens(last) = <<50, 50, 40>> /\ OverlapsBy(last.result, 10)

\* C24 witness: the document of 120 letters was split into chunks of 50, 50
\* and 40 characters that begin at its characters 1, 41 and 81.
C24_Witness ==
    /\ Scenario(last)
    /\ last.args.text = Unbroken
    /\ ChunkLens(last) = <<50, 50, 40>>
    /\ \A j \in 1..3 : last.result[j].page_content
                            = SubSeq(Unbroken, 40 * (j - 1) + 1, Min(40 * (j - 1) + 50, 120))

\* the vector index's count differs from the length of the chunk-text or of
\* the chunk-metadata collection
Torn(s) ==
    LET count == IF s.index = None THEN 0 ELSE Ntotal(s.index)
    IN  count # Len(Items(s.documents)) \/ count # Len(Items(s.metadata))

\* a search that has just run while a mutation of the same manager stands
\* before the statement at one of `lines`
SearchedAt(op, lines) ==
    /\ last.op = "search_relevant_content"
    /\ saver.op = op
    /\ saver.line \in lines

\* C25: a search_relevant_content call that runs between index.add and the
\* end of the appends of add_document_from_text, or between the new index of
\* index_documents and the assignment of its metadata when the number of
\* chunks changes, finds the index's count different from the length of the
\* chunk-text or chunk-metadata collection; a search that runs while no
\* mutation is under way finds the three equal.
C25_SearchObservesTornState ==
    /\ SearchedAt("add_document_from_text", {398, 399}) => Torn(self)
    /\ (SearchedAt("index_documents", {208, 209}) /\ saver.chunks # saver.size) => Torn(self)
    /\ (last.op = "search_relevant_content" /\ saver.line = 0) => ~Torn(self)

\* C25 witness: a search ran after line 398 appended a chunk's text and before
\* its metadata was appended: the text collection was as long as the index's
\* count and the metadata collection one shorter, and the search, reaching
\* the chunk without metadata, returned no result.
C25_Witness ==
    /\ SearchedAt("add_document_from_text", {399})
    /\ Ntotal(self.index) = Len(self.documents.list)
    /\ Len(self.metadata.list) = Len(self.documents.list) - 1
    /\ last.error = "IndexError"
    /\ last.result = <<>>

\* the requests of the call on record that failed before its first success,
\* or all those it was allowed when none succeeded
Firsts(l) ==
    {i \in 1..l.args.retry_attempts : \A j \in 1..i : l.args.outcomes[j] # "ok"}

C27_SplitterMatchesStats ==
    (last.op = "construct" /\ last.given # None /\ last.error # "ValueError") =>
        /\ last.error = "none"
        /\ last.text_splitter = last.stats

\* the keywords of the list that the message on record contains in some
\* letter case
Contained(l) ==
    {i \in 1..Len(CrisisKeywordList) : In(Lower(CrisisKeywordList[i]), Lower(l.args.text))}

\* C28: for every keyword of CRISIS_KEYWORDS, a message that contains it in
\* any letter case is reported as a crisis with that keyword in the returned
\* list; a message that contains no keyword is reported as no crisis with an
\* empty list.
C28_EveryKeywordAnyCase ==
    last.op = "detect_crisis" =>
        /\ \A i \in Contained(last) :
               /\ last.ret
               /\ \E j \in 1..Len(last.result) : last.result[j] = CrisisKeywordList[i]
        /\ Contained(last) = {} => ~last.ret /\ last.result = <<>>

\* user and assistant entries in turn, a user entry first
Alternates(history) ==
    \A i \in 1..Len(history) :
        history[i].role = IF i % 2 = 1 THEN "user" ELSE "assistant"

\* C29: after any sequence of process_message calls in one session the
\* history kept in the session state strictly alternates user and assistant
\* entries starting with a user entry, and a blank message changes neither
\* the chat display nor the session state.
C29_HistoryAlternates ==
    /\ [](Alternates(chat.history))
    /\ [][(last'.op = "process_message" /\ IsBlank(last'.given.user_message)) =>
            /\ chat'.chatbot = chat.chatbot
            /\ chat'.history = chat.history
            /\ chat'.category = chat.category]_vars

\* the call on record sent a request to the LLM
Sent(l) ==
    /\ l.op \in {"process_message", "generate_mental_health_response"}
    /\ l.result # <<>>

\* C30: the message list sent is one system message, then the most recent
\* entries of the prior conversation history, at most 20 of them and in their
\* original order, then the current user message as the last entry; the
\* prior history is the session's history before the turn, so the current
\* message is in the list once.
C30_MessageList ==
    Sent(last) =>
        LET messages == last.result
            prior == last.given.prior
            n == Min(Len(prior), 20)
        IN  /\ Len(messages) = n + 2
            /\ messages[1].role = "system"
            /\ \A i \in 1..n : messages[1 + i] = prior[Len(prior) - n + i]
            /\ messages[n + 2] = [role |-> "user", content |-> last.given.user_message]
            /\ \A i \in 2..(n + 2) : messages[i].role # "system"

\* C30 witness: a request was sent with a prior history of 23 entries: the
\* list holds 22 messages, the second of them the fourth entry of the history.
C30_Witness ==
    /\ Sent(last)
    /\ Len(last.given.prior) = 23
    /\ Len(last.result) = 22
    /\ last.result[2] = last.given.prior[4]
    /\ last.result[21] = last.given.prior[23]


====
